---------------------------- MODULE Spec2Model ----------------------------
(***************************************************************************)
(* Model of FINE's storage component (src/FINE/storage.py): the            *)
(* construction of a Storage record, its time-series life cycle, and the   *)
(* declaration of the sets, variables and constraints of the StorageModel  *)
(* into the shared optimization problem (pyM).                             *)
(*                                                                         *)
(* Numbers that are real-valued in the program (efficiencies, the          *)
(* self-discharge, coefficients of the constraints) are exact rationals    *)
(* <<numerator, denominator>> with a positive denominator.  A linear       *)
(* constraint is kept as the program builds it: a left and a right linear  *)
(* expression (a sequence of <<coefficient, variable>> terms plus a        *)
(* constant) and a sense.                                                  *)
(***************************************************************************)
EXTENDS Integers, Sequences, FiniteSets, TLC

VARIABLES
    esM,             \* the host's time/period structure
    componentsDict,  \* StorageModel.componentsDict: name -> Storage record
    pySets,          \* index sets declared on pyM (name -> set of tuples)
    pyVars,          \* variable families declared on pyM (name -> index set, domain)
    pyConstr,        \* constraint rows declared on pyM
    pc,              \* how far the model build has come
    call,            \* the arguments of the Storage(...) call of the life cycle
    stor,            \* the Storage object of the life cycle
    spc,             \* the last operation of the life cycle
    registered,      \* the names of componentsDict in registration order
    pyObj,           \* the storage contribution to the objective function
    sol,             \* the values the solver left on the variables of pyM
    opt,             \* the result fields of the StorageModel
    ret,             \* the value the last query returned
    sds,             \* the dataset of regions handed to the grouping utilities
    parts            \* the three preprocessed parts of the dataset

vars == <<esM, componentsDict, pySets, pyVars, pyConstr, pc, call, stor, spc,
          registered, pyObj, sol, opt, ret, sds, parts>>

\* The variables the build, the life cycle and the results leave alone
lifeVars == <<call, stor, spc>>
resultVars == <<sol, opt, ret>>
groupingVars == <<sds, parts>>

----------------------------------------------------------------------------
(* Bounds of the model *)

NumTimeSteps == 4
NumSegments == 2
NumPeriods == 2
NumTypicalPeriods == 2
HoursPerTimeStep == 2
NumRegions == 4
NumSamples == 2
NumComponents == 2

----------------------------------------------------------------------------
(* Python's None and optional values *)

None == <<>>
Some(v) == <<v>>
IsNone(x) == x = <<>>
Val(x) == x[1]

----------------------------------------------------------------------------
(* Exact rational arithmetic *)

R(n, d) == <<n, d>>
RInt(n) == <<n, 1>>
RZero == <<0, 1>>
ROne == <<1, 1>>
RAdd(a, b) == <<a[1] * b[2] + b[1] * a[2], a[2] * b[2]>>
RNeg(a) == <<-a[1], a[2]>>
RSub(a, b) == RAdd(a, RNeg(b))
RMul(a, b) == <<a[1] * b[1], a[2] * b[2]>>
RInv(a) == IF a[1] > 0 THEN <<a[2], a[1]>> ELSE <<-a[2], -a[1]>>
RDiv(a, b) == RMul(a, RInv(b))
REq(a, b) == a[1] * b[2] = b[1] * a[2]
RLe(a, b) == a[1] * b[2] <= b[1] * a[2]

RECURSIVE GCD(_, _)
GCD(a, b) == IF b = 0 THEN a ELSE GCD(b, a % b)

\* The same number in lowest terms
RNorm(a) ==
    LET g == GCD(IF a[1] < 0 THEN -a[1] ELSE a[1], a[2])
    IN  <<a[1] \div g, a[2] \div g>>

RECURSIVE RPow(_, _)
RPow(a, e) == IF e = 0 THEN ROne ELSE RMul(a, RPow(a, e - 1))

RECURSIVE SumSeq(_)
SumSeq(s) == IF s = <<>> THEN 0 ELSE Head(s) + SumSeq(Tail(s))

----------------------------------------------------------------------------
(* The host's locations and time structure *)

Locations == {"l1", "l2"}
CompNames == {"A", "B"}

\* esM.timeStepsPerPeriod = [0 .. NumTimeSteps-1]
timeStepsPerPeriod == 0 .. (NumTimeSteps - 1)
lastTimeStep == NumTimeSteps - 1

\* esM.segmentsPerPeriod: fewer segments than time steps
segmentsPerPeriod == 0 .. (NumSegments - 1)
lastSegment == NumSegments - 1

\* esM.timeStepsPerSegment[p, s]: the number of original time steps segment s of
\* typical period p stands for (irregular: one segment of each period is longer)
timeStepsPerSegment(p, s) == IF s = p % NumSegments THEN NumTimeSteps - NumSegments + 1 ELSE 1

\* esM.hoursPerSegment[p, s]
hoursPerSegment(e, p, s) == e.hoursPerTimeStep * timeStepsPerSegment(p, s)

\* esM.segmentStartTime[p, s]: the time steps of period p that precede segment s,
\* for s = 0 .. NumSegments (the last entry is the end of the period)
segmentStartTimeKeys(e) == e.typicalPeriods \X (0 .. NumSegments)
segmentStartTime(p, s) == SumSeq([i \in 1 .. s |-> timeStepsPerSegment(p, i - 1)])

\* The chronological-period -> typical-period mappings the host may hand over
PeriodsOrders ==
    { [k \in 0 .. (NumPeriods - 1) |-> k % NumTypicalPeriods],
      [k \in 0 .. (NumPeriods - 1) |-> (k + 1) % NumTypicalPeriods],
      [k \in 0 .. (NumPeriods - 1) |-> 0] }

\* The host structures: full resolution, aggregated, aggregated with segmentation
EsMs ==
    { [hasTSA |-> FALSE, segmentation |-> FALSE, hoursPerTimeStep |-> HoursPerTimeStep,
       periods |-> {0}, interPeriodTimeSteps |-> 0 .. 1, typicalPeriods |-> {0},
       periodsOrder |-> [k \in {0} |-> 0],
       periodOccurrences |-> [p \in {0} |-> 1], numberOfYears |-> 1] }
    \cup
    { [hasTSA |-> TRUE, segmentation |-> seg, hoursPerTimeStep |-> HoursPerTimeStep,
       periods |-> 0 .. (NumPeriods - 1), interPeriodTimeSteps |-> 0 .. NumPeriods,
       typicalPeriods |-> 0 .. (NumTypicalPeriods - 1),
       periodsOrder |-> po,
       periodOccurrences |->
           [p \in 0 .. (NumTypicalPeriods - 1) |->
               Cardinality({k \in 0 .. (NumPeriods - 1) : po[k] = p})],
       numberOfYears |-> 2]
      : seg \in BOOLEAN, po \in PeriodsOrders }

\* pyM.timeSet: (period, time step) or (period, segment)
timeSet(e) ==
    IF e.segmentation
    THEN {<<p, t>> : p \in e.typicalPeriods, t \in segmentsPerPeriod}
    ELSE {<<p, t>> : p \in e.typicalPeriods, t \in timeStepsPerPeriod}

\* pyM.interTimeStepsSet: one more index than the time set, per period
interTimeStepsSet(e) ==
    IF e.segmentation
    THEN {<<p, t>> : p \in e.typicalPeriods, t \in 0 .. NumSegments}
    ELSE {<<p, t>> : p \in e.typicalPeriods, t \in 0 .. NumTimeSteps}

----------------------------------------------------------------------------
(* Storage.__init__ *)

Commodities == {"electricity", "hydrogen"}

\* Operation-rate time series: values in tenths, by (location, time step)
SeriesIndex == Locations \X {0, 1}

\* utils.checkAndSetTimeSeries: None stays None, a series is taken over
checkAndSetTimeSeries(ts) == ts

\* ((series > 0) & (series < partLoadMin)).any().any()
belowPartLoadMin(series, partLoadMin) ==
    \E i \in DOMAIN series : series[i] > 0 /\ series[i] < partLoadMin

\* A constructor that passes the maximum series on whether or not a fixed
\* series is given
discardedOpRateMaxKept(opRateMax, opRateFix) == opRateMax

\* The maximum series Storage.__init__ passes on to checkAndSetTimeSeries: the
\* local is set to None when a fixed series is given as well
discardedOpRateMax(opRateMax, opRateFix) ==
    IF ~IsNone(opRateMax) /\ ~IsNone(opRateFix) THEN None ELSE opRateMax

\* The part-load check, which the constructor makes of the charge series only
partLoadMinViolatedCharge(a, fullMax, fullFix) ==
    /\ ~IsNone(a.partLoadMin)
    /\ \/ ~IsNone(fullMax) /\ belowPartLoadMin(Val(fullMax), Val(a.partLoadMin))
       \/ ~IsNone(fullFix) /\ belowPartLoadMin(Val(fullFix), Val(a.partLoadMin))

\* utils.setLocationalEligibility: an eligibility the caller gives is kept
setLocationalEligibility(a) == a.locationalEligibility

\* Storage.__init__(esM, name, commodity, ...): the constructed object, or the
\* error it raises
StorageInit(a) ==
    LET fullChargeOpRateMax ==
            checkAndSetTimeSeries(discardedOpRateMax(a.chargeOpRateMax, a.chargeOpRateFix))
        fullChargeOpRateFix == checkAndSetTimeSeries(a.chargeOpRateFix)
        fullDischargeOpRateMax ==
            checkAndSetTimeSeries(discardedOpRateMax(a.dischargeOpRateMax, a.dischargeOpRateFix))
        fullDischargeOpRateFix == checkAndSetTimeSeries(a.dischargeOpRateFix)
        warned ==
            \/ ~IsNone(a.chargeOpRateMax) /\ ~IsNone(a.chargeOpRateFix)
            \/ ~IsNone(a.dischargeOpRateMax) /\ ~IsNone(a.dischargeOpRateFix)
        raised ==
            IF a.commodity \notin Commodities THEN "ValueError: commodity"
            ELSE IF partLoadMinViolatedCharge(a, fullChargeOpRateMax, fullChargeOpRateFix)
                 THEN "ValueError: partLoadMin"
            ELSE "none"
    IN  [ raised |-> raised,
          warned |-> warned,
          name |-> a.name,
          commodity |-> a.commodity,
          hasCapacityVariable |-> a.hasCapacityVariable,
          partLoadMin |-> a.partLoadMin,
          economicLifetime |-> a.economicLifetime,
          chargeEfficiency |-> a.chargeEfficiency,
          dischargeEfficiency |-> a.dischargeEfficiency,
          selfDischarge |-> a.selfDischarge,
          cyclicLifetime |-> a.cyclicLifetime,
          stateOfChargeMin |-> a.stateOfChargeMin,
          stateOfChargeMax |-> a.stateOfChargeMax,
          isPeriodicalStorage |-> a.isPeriodicalStorage,
          doPreciseTsaModeling |-> a.doPreciseTsaModeling,
          socOffsetUp |-> a.socOffsetUp,
          socOffsetDown |-> a.socOffsetDown,
          chargeOpRateMax |-> a.chargeOpRateMax,
          chargeOpRateFix |-> a.chargeOpRateFix,
          fullChargeOpRateMax |-> fullChargeOpRateMax,
          aggregatedChargeOpRateMax |-> None,
          processedChargeOpRateMax |-> None,
          fullChargeOpRateFix |-> fullChargeOpRateFix,
          aggregatedChargeOpRateFix |-> None,
          processedChargeOpRateFix |-> None,
          dischargeOpRateMax |-> a.dischargeOpRateMax,
          dischargeOpRateFix |-> a.dischargeOpRateFix,
          fullDischargeOpRateMax |-> fullDischargeOpRateMax,
          aggregatedDischargeOpRateMax |-> None,
          processedDischargeOpRateMax |-> None,
          fullDischargeOpRateFix |-> fullDischargeOpRateFix,
          aggregatedDischargeOpRateFix |-> None,
          processedDischargeOpRateFix |-> None,
          locationalEligibility |-> setLocationalEligibility(a) ]

\* Storage.setTimeSeriesData(hasTSA)
setTimeSeriesData(c, hasTSA) ==
    [c EXCEPT
        !.processedChargeOpRateMax =
            IF hasTSA THEN c.aggregatedChargeOpRateMax ELSE c.fullChargeOpRateMax,
        !.processedChargeOpRateFix =
            IF hasTSA THEN c.aggregatedChargeOpRateFix ELSE c.fullChargeOpRateFix,
        !.processedDischargeOpRateMax =
            IF hasTSA THEN c.aggregatedDischargeOpRateMax ELSE c.fullDischargeOpRateMax,
        !.processedDischargeOpRateFix =
            IF hasTSA THEN c.aggregatedDischargeOpRateFix ELSE c.fullDischargeOpRateFix]

\* Component.getTSAOutput(rate, rateName, data): None for a None rate, else the
\* clustered columns of that rate name
getTSAOutput(rate, rateName, data) ==
    IF IsNone(rate) THEN None ELSE Some(data[rateName])

\* Storage.setAggregatedTimeSeriesData(data)
setAggregatedTimeSeriesData(c, data) ==
    [c EXCEPT
        !.aggregatedChargeOpRateFix = getTSAOutput(c.fullChargeOpRateFix, "chargeRate_", data),
        !.aggregatedChargeOpRateMax = getTSAOutput(c.fullChargeOpRateMax, "chargeRate_", data),
        !.aggregatedDischargeOpRateFix =
            getTSAOutput(c.fullDischargeOpRateFix, "dischargeRate_", data),
        !.aggregatedDischargeOpRateMax =
            getTSAOutput(c.fullDischargeOpRateMax, "dischargeRate_", data)]

----------------------------------------------------------------------------
(* Linear expressions and constraints, as pyomo keeps them *)

\* A variable of the problem: its family and its index
Var(family, idx) == <<family, idx>>
Term(coef, v) == <<coef, v>>
Expr(terms, const) == [terms |-> terms, const |-> const]

\* What a constraint rule returns: a relation, Constraint.Skip, or (a rule that
\* falls off its end) None
Eq(lhs, rhs) == [kind |-> "expr", lhs |-> lhs, sense |-> "==", rhs |-> rhs]
Le(lhs, rhs) == [kind |-> "expr", lhs |-> lhs, sense |-> "<=", rhs |-> rhs]
Ge(lhs, rhs) == [kind |-> "expr", lhs |-> lhs, sense |-> ">=", rhs |-> rhs]
Skip == [kind |-> "Skip", lhs |-> Expr(<<>>, RZero), sense |-> "", rhs |-> Expr(<<>>, RZero)]
NoneReturned == [kind |-> "None", lhs |-> Expr(<<>>, RZero), sense |-> "", rhs |-> Expr(<<>>, RZero)]
\* A rule that raises KeyError on a lookup
KeyError == [kind |-> "KeyError", lhs |-> Expr(<<>>, RZero), sense |-> "", rhs |-> Expr(<<>>, RZero)]

\* pyomo.Constraint(indexSet, rule=rule) attached to pyM under `name`: one row
\* per index whose rule returns a relation; a rule returning None makes pyomo
\* raise, a rule that raises ends the declaration, and nothing is attached
Constraint(name, indexSet, rule) ==
    [ name |-> name,
      raised |-> \E i \in indexSet : rule[i].kind \in {"None", "KeyError"},
      rows |-> {[name |-> name, idx |-> i, con |-> rule[i]] :
                   i \in {j \in indexSet : rule[j].kind = "expr"}} ]

----------------------------------------------------------------------------
(* StorageModel.declareSets *)

\* The locations in the order of a component's locationalEligibility index
LocationOrder == <<"l1", "l2">>

\* The elements of a sequence that satisfy a test, in their order
RECURSIVE SelectInOrder(_, _)
SelectInOrder(seq, keep) ==
    IF seq = <<>> THEN <<>>
    ELSE (IF Head(seq) \in keep THEN <<Head(seq)>> ELSE <<>>)
         \o SelectInOrder(Tail(seq), keep)

\* The (location, component) pairs as a loop over componentsDict.items() and,
\* within a component, over its locations meets them
RECURSIVE pairsInOrder(_)
pairsInOrder(names) ==
    IF names = <<>> THEN <<>>
    ELSE [n \in 1 .. Len(LocationOrder) |-> <<LocationOrder[n], Head(names)>>]
         \o pairsInOrder(Tail(names))

Range(seq) == {seq[n] : n \in 1 .. Len(seq)}

\* The order in which the ordered set operationVarSet holds its pairs: that of
\* the loop over componentsDict.items(), i.e. the registration order
operationVarOrder(compDict, names) ==
    SelectInOrder(pairsInOrder(names),
                  {<<loc, compName>> \in Locations \X DOMAIN compDict :
                      compDict[compName].locationalEligibility[loc] = 1})

\* ComponentModel.declareOpVarSet also keeps, per location, the names of the
\* components that have operation variables there
operationVarDict(compDict, names) ==
    [loc \in Locations |->
        SelectInOrder(names, {c \in DOMAIN compDict : compDict[c].locationalEligibility[loc] = 1})]

\* ComponentModel.declareOpVarSet: the eligible (location, component) pairs
declareOpVarSet(compDict, names) == Range(operationVarOrder(compDict, names))

\* ComponentModel.declareDesignVarSet: the eligible pairs with a capacity variable
declareDesignVarSet(compDict, names) ==
    {lc \in Range(operationVarOrder(compDict, names)) : compDict[lc[2]].hasCapacityVariable}

initVarSimpleTSASet(compDict, varSet) ==
    {lc \in varSet : ~compDict[lc[2]].doPreciseTsaModeling}

\* A precise set that is not filtered by the flag
initVarPreciseTSASetUnfiltered(compDict, varSet) == varSet

initVarPreciseTSASet(compDict, varSet) ==
    {lc \in varSet : compDict[lc[2]].doPreciseTsaModeling}

\* An upward slack set that leaves out the coefficient 0
initOffsetUpSetPositive(compDict, varSet) ==
    {lc \in varSet : compDict[lc[2]].socOffsetUp > 0}

initOffsetUpSet(compDict, varSet) ==
    {lc \in varSet : compDict[lc[2]].socOffsetUp >= 0}

initOffsetDownSet(compDict, varSet) ==
    {lc \in varSet : compDict[lc[2]].socOffsetDown >= 0}

\* A declaration whose upward slack set holds the pairs of the first
\* registered component only
declareSetsOffsetUpOfFirstRegistered(e, compDict, names) ==
    LET varSet == declareOpVarSet(compDict, names)
        base == [designDimensionVarSet |-> declareDesignVarSet(compDict, names),
                 operationVarSet |-> varSet,
                 operationVarOrder |-> operationVarOrder(compDict, names),
                 operationVarDict |-> operationVarDict(compDict, names),
                 varSetOffsetUp |->
                     {lc \in initOffsetUpSet(compDict, varSet) : lc[2] = Head(names)},
                 varSetOffsetDown |-> initOffsetDownSet(compDict, varSet)]
    IN  IF e.hasTSA
        THEN [n \in DOMAIN base \cup {"varSetSimple", "varSetPrecise"} |->
                 IF n = "varSetSimple" THEN initVarSimpleTSASet(compDict, varSet)
                 ELSE IF n = "varSetPrecise" THEN initVarPreciseTSASet(compDict, varSet)
                 ELSE base[n]]
        ELSE base

\* The sets on pyM after declareSets; the two TSA sets exist only with hasTSA
declareSets(e, compDict, names) ==
    LET varSet == declareOpVarSet(compDict, names)
        base == [designDimensionVarSet |-> declareDesignVarSet(compDict, names),
                 operationVarSet |-> varSet,
                 operationVarOrder |-> operationVarOrder(compDict, names),
                 operationVarDict |-> operationVarDict(compDict, names),
                 varSetOffsetUp |-> initOffsetUpSet(compDict, varSet),
                 varSetOffsetDown |-> initOffsetDownSet(compDict, varSet)]
    IN  IF e.hasTSA
        THEN [n \in DOMAIN base \cup {"varSetSimple", "varSetPrecise"} |->
                 IF n = "varSetSimple" THEN initVarSimpleTSASet(compDict, varSet)
                 ELSE IF n = "varSetPrecise" THEN initVarPreciseTSASet(compDict, varSet)
                 ELSE base[n]]
        ELSE base

----------------------------------------------------------------------------
(* StorageModel.declareVariables *)

\* pyomo.Var(set1, set2, domain=...): indexed by the flattened product
PyVar(set1, set2, domain) ==
    [index |-> {s1 \o s2 : s1 \in set1, s2 \in set2}, domain |-> domain]

asTuples(S) == {<<x>> : x \in S}

declareVariables(e, sets) ==
    LET common ==
            [cap |-> PyVar(sets.designDimensionVarSet, {<<>>}, "NonNegativeReals"),
             chargeOp |-> PyVar(sets.operationVarSet, timeSet(e), "NonNegativeReals"),
             dischargeOp |-> PyVar(sets.operationVarSet, timeSet(e), "NonNegativeReals")]
        noTSA ==
            [stateOfCharge |->
                 PyVar(sets.operationVarSet, interTimeStepsSet(e), "NonNegativeReals"),
             stateOfChargeOffsetUp |->
                 PyVar(sets.varSetOffsetUp, asTuples(e.periods), "NonNegativeReals"),
             stateOfChargeOffsetDown |->
                 PyVar(sets.varSetOffsetDown, asTuples(e.periods), "NonNegativeReals")]
        withTSA ==
            [stateOfCharge |-> PyVar(sets.operationVarSet, interTimeStepsSet(e), "Reals"),
             stateOfChargeMin |->
                 PyVar(sets.operationVarSet, asTuples(e.typicalPeriods), "Reals"),
             stateOfChargeMax |->
                 PyVar(sets.operationVarSet, asTuples(e.typicalPeriods), "Reals"),
             stateOfChargeInterPeriods |->
                 PyVar(sets.operationVarSet, asTuples(e.interPeriodTimeSteps), "NonNegativeReals"),
             stateOfChargeOffsetUp |->
                 PyVar(sets.varSetOffsetUp, asTuples(e.interPeriodTimeSteps), "NonNegativeReals"),
             stateOfChargeOffsetDown |->
                 PyVar(sets.varSetOffsetDown, asTuples(e.interPeriodTimeSteps), "NonNegativeReals")]
    IN  IF e.hasTSA THEN common @@ withTSA ELSE common @@ noTSA

----------------------------------------------------------------------------
(* The constraint rules of StorageModel *)

\* (1 - selfDischarge) ** hours
decay(comp, hours) == RPow(RSub(ROne, comp.selfDischarge), hours)

\* `v[idx] if idx in v else 0` as the terms it adds to a sum
offsetTerm(pv, family, idx, coef) ==
    IF idx \in pv[family].index THEN <<Term(coef, Var(family, idx))>> ELSE <<>>

RECURSIVE SetToSeq(_)
SetToSeq(S) ==
    IF S = {} THEN <<>>
    ELSE LET x == CHOOSE y \in S : TRUE IN <<x>> \o SetToSeq(S \ {x})

\* connectSOCs with the time-step hours used for a segment too
connectSOCsRuleTimeStepHours(e, compDict, i) ==
    LET loc == i[1]  compName == i[2]  p == i[3]  t == i[4]
        comp == compDict[compName]
    IN  Eq(Expr(<<Term(ROne, Var("stateOfCharge", <<loc, compName, p, t + 1>>)),
                  Term(RNeg(decay(comp, e.hoursPerTimeStep)),
                       Var("stateOfCharge", <<loc, compName, p, t>>))>>,
                RZero),
           Expr(<<Term(comp.chargeEfficiency, Var("chargeOp", <<loc, compName, p, t>>)),
                  Term(RNeg(RInv(comp.dischargeEfficiency)),
                       Var("dischargeOp", <<loc, compName, p, t>>))>>,
                RZero))

\* connectSOCs that multiplies the discharge flow by the efficiency
connectSOCsRuleDischargeMultiplied(e, compDict, i) ==
    LET loc == i[1]  compName == i[2]  p == i[3]  t == i[4]
        comp == compDict[compName]
        hours == IF ~e.segmentation THEN e.hoursPerTimeStep ELSE hoursPerSegment(e, p, t)
    IN  Eq(Expr(<<Term(ROne, Var("stateOfCharge", <<loc, compName, p, t + 1>>)),
                  Term(RNeg(decay(comp, hours)), Var("stateOfCharge", <<loc, compName, p, t>>))>>,
                RZero),
           Expr(<<Term(comp.chargeEfficiency, Var("chargeOp", <<loc, compName, p, t>>)),
                  Term(RNeg(comp.dischargeEfficiency),
                       Var("dischargeOp", <<loc, compName, p, t>>))>>,
                RZero))

\* connectSOCs(pyM, loc, compName, p, t)
connectSOCsRule(e, compDict, i) ==
    LET loc == i[1]  compName == i[2]  p == i[3]  t == i[4]
        comp == compDict[compName]
        hours == IF ~e.segmentation THEN e.hoursPerTimeStep ELSE hoursPerSegment(e, p, t)
    IN  Eq(Expr(<<Term(ROne, Var("stateOfCharge", <<loc, compName, p, t + 1>>)),
                  Term(RNeg(decay(comp, hours)), Var("stateOfCharge", <<loc, compName, p, t>>))>>,
                RZero),
           Expr(<<Term(comp.chargeEfficiency, Var("chargeOp", <<loc, compName, p, t>>)),
                  Term(RNeg(RInv(comp.dischargeEfficiency)),
                       Var("dischargeOp", <<loc, compName, p, t>>))>>,
                RZero))

\* cyclicState that never adds a slack
cyclicStateRuleNoSlack(e, pv, i) ==
    LET loc == i[1]  compName == i[2]
    IN  IF ~e.hasTSA
        THEN Eq(Expr(<<Term(ROne, Var("stateOfCharge", <<loc, compName, 0, 0>>))>>, RZero),
                Expr(<<Term(ROne, Var("stateOfCharge", <<loc, compName, 0, lastTimeStep + 1>>))>>,
                     RZero))
        ELSE Eq(Expr(<<Term(ROne, Var("stateOfChargeInterPeriods", <<loc, compName, 0>>))>>,
                     RZero),
                Expr(<<Term(ROne, Var("stateOfChargeInterPeriods", <<loc, compName, NumPeriods>>))>>,
                     RZero))

\* cyclicState(pyM, loc, compName), both branches of hasTSA
cyclicStateRule(e, pv, i) ==
    LET loc == i[1]  compName == i[2]
    IN  IF ~e.hasTSA
        THEN Eq(Expr(<<Term(ROne, Var("stateOfCharge", <<loc, compName, 0, 0>>))>>, RZero),
                Expr(<<Term(ROne, Var("stateOfCharge", <<loc, compName, 0, lastTimeStep + 1>>))>>
                       \o offsetTerm(pv, "stateOfChargeOffsetUp", <<loc, compName, 0>>, ROne)
                       \o offsetTerm(pv, "stateOfChargeOffsetDown", <<loc, compName, 0>>, RNeg(ROne)),
                     RZero))
        ELSE LET tLast == CHOOSE k \in e.interPeriodTimeSteps :
                              \A j \in e.interPeriodTimeSteps : j <= k
             IN  Eq(Expr(<<Term(ROne, Var("stateOfChargeInterPeriods", <<loc, compName, 0>>))>>,
                         RZero),
                    Expr(<<Term(ROne, Var("stateOfChargeInterPeriods", <<loc, compName, tLast>>))>>
                           \o offsetTerm(pv, "stateOfChargeOffsetUp", <<loc, compName, tLast>>, ROne)
                           \o offsetTerm(pv, "stateOfChargeOffsetDown", <<loc, compName, tLast>>,
                                         RNeg(ROne)),
                         RZero))

\* cyclicLifetime whose throughput is not divided by esM.numberOfYears
cyclicLifetimeRuleNotAnnualised(e, compDict, i) ==
    LET loc == i[1]  compName == i[2]
        comp == compDict[compName]
        ts == SetToSeq(timeSet(e))
    IN  IF ~IsNone(comp.cyclicLifetime)
        THEN Le(Expr([n \in 1 .. Len(ts) |->
                         Term(RInt(e.periodOccurrences[ts[n][1]]),
                              Var("chargeOp", <<loc, compName, ts[n][1], ts[n][2]>>))],
                     RZero),
                Expr(<<Term(RDiv(RMul(RSub(comp.stateOfChargeMax, comp.stateOfChargeMin),
                                      RInt(Val(comp.cyclicLifetime))),
                                 RInt(comp.economicLifetime[loc])),
                            Var("cap", <<loc, compName>>))>>,
                     RZero))
        ELSE Skip

\* cyclicLifetime(pyM, loc, compName)
cyclicLifetimeRule(e, compDict, i) ==
    LET loc == i[1]  compName == i[2]
        comp == compDict[compName]
        ts == SetToSeq(timeSet(e))
    IN  IF ~IsNone(comp.cyclicLifetime)
        THEN Le(Expr([n \in 1 .. Len(ts) |->
                         Term(R(e.periodOccurrences[ts[n][1]], e.numberOfYears),
                              Var("chargeOp", <<loc, compName, ts[n][1], ts[n][2]>>))],
                     RZero),
                Expr(<<Term(RDiv(RMul(RSub(comp.stateOfChargeMax, comp.stateOfChargeMin),
                                      RInt(Val(comp.cyclicLifetime))),
                                 RInt(comp.economicLifetime[loc])),
                            Var("cap", <<loc, compName>>))>>,
                     RZero))
        ELSE Skip

\* connectInterSOC that reads the intra-period SOC at the last time step + 1
\* with segmentation too
connectInterSOCRuleTimeStepEnd(e, compDict, pv, i) ==
    LET loc == i[1]  compName == i[2]  pInter == i[3]
        comp == compDict[compName]
    IN  Eq(Expr(<<Term(ROne, Var("stateOfChargeInterPeriods", <<loc, compName, pInter + 1>>))>>,
                RZero),
           Expr(<<Term(decay(comp, (lastTimeStep + 1) * e.hoursPerTimeStep),
                       Var("stateOfChargeInterPeriods", <<loc, compName, pInter>>)),
                  Term(ROne, Var("stateOfCharge",
                                 <<loc, compName, e.periodsOrder[pInter], lastTimeStep + 1>>))>>
                  \o offsetTerm(pv, "stateOfChargeOffsetUp", <<loc, compName, pInter>>, ROne)
                  \o offsetTerm(pv, "stateOfChargeOffsetDown", <<loc, compName, pInter>>,
                                RNeg(ROne)),
                RZero))

\* connectInterSOC(pyM, loc, compName, pInter)
connectInterSOCRule(e, compDict, pv, i) ==
    LET loc == i[1]  compName == i[2]  pInter == i[3]
        comp == compDict[compName]
        tEnd == IF ~e.segmentation THEN lastTimeStep + 1 ELSE lastSegment + 1
    IN  Eq(Expr(<<Term(ROne, Var("stateOfChargeInterPeriods", <<loc, compName, pInter + 1>>))>>,
                RZero),
           Expr(<<Term(decay(comp, (lastTimeStep + 1) * e.hoursPerTimeStep),
                       Var("stateOfChargeInterPeriods", <<loc, compName, pInter>>)),
                  Term(ROne, Var("stateOfCharge",
                                 <<loc, compName, e.periodsOrder[pInter], tEnd>>))>>
                  \o offsetTerm(pv, "stateOfChargeOffsetUp", <<loc, compName, pInter>>, ROne)
                  \o offsetTerm(pv, "stateOfChargeOffsetDown", <<loc, compName, pInter>>,
                                RNeg(ROne)),
                RZero))

\* intraSOCstart that pins the intra-period SOC at index 1
intraSOCstartRuleAtOne(i) ==
    Eq(Expr(<<Term(ROne, Var("stateOfCharge", <<i[1], i[2], i[3], 1>>))>>, RZero),
       Expr(<<>>, RZero))

\* intraSOCstart(pyM, loc, compName, p)
intraSOCstartRule(i) ==
    Eq(Expr(<<Term(ROne, Var("stateOfCharge", <<i[1], i[2], i[3], 0>>))>>, RZero),
       Expr(<<>>, RZero))

\* equalInterSOC that does not look at isPeriodicalStorage
equalInterSOCRuleAlways(compDict, i) ==
    LET loc == i[1]  compName == i[2]  pInter == i[3]
    IN  Eq(Expr(<<Term(ROne, Var("stateOfChargeInterPeriods", <<loc, compName, pInter>>))>>,
                RZero),
           Expr(<<Term(ROne, Var("stateOfChargeInterPeriods",
                                 <<loc, compName, pInter + 1>>))>>, RZero))

\* equalInterSOC(pyM, loc, compName, pInter)
equalInterSOCRule(compDict, i) ==
    LET loc == i[1]  compName == i[2]  pInter == i[3]
    IN  IF compDict[compName].isPeriodicalStorage
        THEN Eq(Expr(<<Term(ROne, Var("stateOfChargeInterPeriods", <<loc, compName, pInter>>))>>,
                     RZero),
                Expr(<<Term(ROne, Var("stateOfChargeInterPeriods",
                                      <<loc, compName, pInter + 1>>))>>, RZero))
        ELSE Skip

\* minSOC.SOCMin(pyM, loc, compName, p, t)
SOCMinRule(compDict, i) ==
    LET loc == i[1]  compName == i[2]
    IN  Ge(Expr(<<Term(ROne, Var("stateOfCharge", i))>>, RZero),
           Expr(<<Term(compDict[compName].stateOfChargeMin, Var("cap", <<loc, compName>>))>>,
                RZero))

\* operationModeSOC.op(pyM, loc, compName, p, t)
operationModeSOCRule(compDict, i) ==
    LET loc == i[1]  compName == i[2]
    IN  Le(Expr(<<Term(ROne, Var("stateOfCharge", i))>>, RZero),
           Expr(<<Term(compDict[compName].stateOfChargeMax, Var("cap", <<loc, compName>>))>>,
                RZero))

\* limitSOCwithSimpleTsa.SOCintraPeriodMax(pyM, loc, compName, p, t)
SOCintraPeriodMaxRule(i) ==
    Le(Expr(<<Term(ROne, Var("stateOfCharge", i))>>, RZero),
       Expr(<<Term(ROne, Var("stateOfChargeMax", <<i[1], i[2], i[3]>>))>>, RZero))

\* limitSOCwithSimpleTsa.SOCintraPeriodMin(pyM, loc, compName, p, t)
SOCintraPeriodMinRule(i) ==
    Ge(Expr(<<Term(ROne, Var("stateOfCharge", i))>>, RZero),
       Expr(<<Term(ROne, Var("stateOfChargeMin", <<i[1], i[2], i[3]>>))>>, RZero))

\* limitSOCwithSimpleTsa.SOCMaxSimple(pyM, loc, compName, pInter): the else
\* branch evaluates Constraint.Skip and returns nothing
SOCMaxSimpleRule(e, compDict, i) ==
    LET loc == i[1]  compName == i[2]  pInter == i[3]
        comp == compDict[compName]
    IN  IF comp.hasCapacityVariable
        THEN Le(Expr(<<Term(ROne, Var("stateOfChargeInterPeriods", <<loc, compName, pInter>>)),
                       Term(ROne, Var("stateOfChargeMax",
                                      <<loc, compName, e.periodsOrder[pInter]>>))>>, RZero),
                Expr(<<Term(comp.stateOfChargeMax, Var("cap", <<loc, compName>>))>>, RZero))
        ELSE NoneReturned

\* limitSOCwithSimpleTsa.SOCMinSimple(pyM, loc, compName, pInter)
SOCMinSimpleRule(e, compDict, i) ==
    LET loc == i[1]  compName == i[2]  pInter == i[3]
        comp == compDict[compName]
        lhs == Expr(<<Term(decay(comp, (lastTimeStep + 1) * e.hoursPerTimeStep),
                           Var("stateOfChargeInterPeriods", <<loc, compName, pInter>>)),
                      Term(ROne, Var("stateOfChargeMin",
                                     <<loc, compName, e.periodsOrder[pInter]>>))>>, RZero)
    IN  IF comp.hasCapacityVariable
        THEN Ge(lhs, Expr(<<Term(comp.stateOfChargeMin, Var("cap", <<loc, compName>>))>>, RZero))
        ELSE Ge(lhs, Expr(<<>>, comp.stateOfChargeMin))

\* The reconstructed state of charge both precise rules bound: the inter-period
\* value decayed to time step t plus the intra-period value; with segmentation
\* the start time is looked up in esM.segmentStartTime.to_dict()
preciseSOC(e, compDict, pv, i) ==
    LET loc == i[1]  compName == i[2]  pInter == i[3]  t == i[4]
        comp == compDict[compName]
        p == e.periodsOrder[pInter]
        hours == IF ~e.segmentation THEN t * e.hoursPerTimeStep
                 ELSE segmentStartTime(p, t) * e.hoursPerTimeStep
    IN  Expr(<<Term(decay(comp, hours),
                    Var("stateOfChargeInterPeriods", <<loc, compName, pInter>>)),
               Term(ROne, Var("stateOfCharge", <<loc, compName, p, t>>))>>, RZero)

\* Whether the lookups of a precise rule at index i find their keys
preciseKeysExist(e, pv, i) ==
    /\ e.segmentation => <<e.periodsOrder[i[3]], i[4]>> \in segmentStartTimeKeys(e)
    /\ <<i[1], i[2], e.periodsOrder[i[3]], i[4]>> \in pv["stateOfCharge"].index

\* operationModeSOCwithTSA.SOCMaxPrecise(pyM, loc, compName, pInter, t)
SOCMaxPreciseRule(e, compDict, pv, i) ==
    LET loc == i[1]  compName == i[2]
        comp == compDict[compName]
    IN  IF comp.doPreciseTsaModeling
        THEN IF preciseKeysExist(e, pv, i)
             THEN Le(preciseSOC(e, compDict, pv, i),
                     Expr(<<Term(comp.stateOfChargeMax, Var("cap", <<loc, compName>>))>>, RZero))
             ELSE KeyError
        ELSE Skip

\* minSOCwithTSAprecise.SOCMinPrecise(pyM, loc, compName, pInter, t)
SOCMinPreciseRule(e, compDict, pv, i) ==
    LET loc == i[1]  compName == i[2]
        comp == compDict[compName]
    IN  IF ~preciseKeysExist(e, pv, i) THEN KeyError
        ELSE IF comp.hasCapacityVariable
        THEN Ge(preciseSOC(e, compDict, pv, i),
                Expr(<<Term(comp.stateOfChargeMin, Var("cap", <<loc, compName>>))>>, RZero))
        ELSE Ge(preciseSOC(e, compDict, pv, i), Expr(<<>>, comp.stateOfChargeMin))

----------------------------------------------------------------------------
(* StorageModel.declareComponentConstraints *)

\* The product of a set of (loc, comp) pairs with further index sets, flattened
Idx(set1, set2) == {s1 \o s2 : s1 \in set1, s2 \in set2}

connectSOCs(e, compDict, sets) ==
    Constraint("ConstrConnectSOC", Idx(sets.operationVarSet, timeSet(e)),
               [i \in Idx(sets.operationVarSet, timeSet(e)) |-> connectSOCsRule(e, compDict, i)])

cyclicState(e, sets, pv) ==
    Constraint("ConstrCyclicState", sets.operationVarSet, [i \in sets.operationVarSet |-> cyclicStateRule(e, pv, i)])

cyclicLifetime(e, compDict, sets) ==
    Constraint("ConstrCyclicLifetime", sets.designDimensionVarSet,
               [i \in sets.designDimensionVarSet |-> cyclicLifetimeRule(e, compDict, i)])

connectInterPeriodSOC(e, compDict, sets, pv) ==
    Constraint("ConstrInterSOC", Idx(sets.operationVarSet, asTuples(e.periods)),
               [i \in Idx(sets.operationVarSet, asTuples(e.periods)) |-> connectInterSOCRule(e, compDict, pv, i)])

intraSOCstart(e, sets) ==
    Constraint("ConstrSOCPeriodStart", Idx(sets.operationVarSet, asTuples(e.typicalPeriods)),
               [i \in Idx(sets.operationVarSet, asTuples(e.typicalPeriods)) |-> intraSOCstartRule(i)])

equalInterSOC(e, compDict, sets) ==
    Constraint("ConstrEqualInterSOC", Idx(sets.operationVarSet, asTuples(e.periods)),
               [i \in Idx(sets.operationVarSet, asTuples(e.periods)) |-> equalInterSOCRule(compDict, i)])

minSOC(e, compDict, sets) ==
    Constraint("ConstrSOCMin", Idx(sets.designDimensionVarSet, timeSet(e)),
               [i \in Idx(sets.designDimensionVarSet, timeSet(e)) |-> SOCMinRule(compDict, i)])

operationModeSOC(e, compDict, sets) ==
    Constraint("ConstrSOCMaxPrecise", Idx(sets.designDimensionVarSet, timeSet(e)),
               [i \in Idx(sets.designDimensionVarSet, timeSet(e)) |-> operationModeSOCRule(compDict, i)])

\* limitSOCwithSimpleTsa declares four constraints, in this order
limitSOCwithSimpleTsa(e, compDict, sets) ==
    << Constraint("ConstSOCintraPeriodMax", Idx(sets.varSetSimple, timeSet(e)),
                  [i \in Idx(sets.varSetSimple, timeSet(e)) |-> SOCintraPeriodMaxRule(i)]),
       Constraint("ConstSOCintraPeriodMin", Idx(sets.varSetSimple, timeSet(e)),
                  [i \in Idx(sets.varSetSimple, timeSet(e)) |-> SOCintraPeriodMinRule(i)]),
       Constraint("ConstrSOCMaxSimple", Idx(sets.varSetSimple, asTuples(e.periods)),
                  [i \in Idx(sets.varSetSimple, asTuples(e.periods)) |-> SOCMaxSimpleRule(e, compDict, i)]),
       Constraint("ConstrSOCMinSimple", Idx(sets.varSetSimple, asTuples(e.periods)),
                  [i \in Idx(sets.varSetSimple, asTuples(e.periods)) |-> SOCMinSimpleRule(e, compDict, i)]) >>

\* esM.periods x esM.timeStepsPerPeriod, the index set of both precise constraints
periodTimeSteps(e) == {<<k, t>> : k \in e.periods, t \in timeStepsPerPeriod}

operationModeSOCwithTSA(e, compDict, sets, pv) ==
    Constraint("ConstrSOCMaxPrecise", Idx(sets.designDimensionVarSet, periodTimeSteps(e)),
               [i \in Idx(sets.designDimensionVarSet, periodTimeSteps(e)) |-> SOCMaxPreciseRule(e, compDict, pv, i)])

minSOCwithTSAprecise(e, compDict, sets, pv) ==
    Constraint("ConstrSOCMinPrecise", Idx(sets.varSetPrecise, periodTimeSteps(e)),
               [i \in Idx(sets.varSetPrecise, periodTimeSteps(e)) |-> SOCMinPreciseRule(e, compDict, pv, i)])

\* The operation-mode declarations declareComponentConstraints calls on the
\* component model, for charging and then for discharging, with the arguments
\* it passes: the mode, the names of the constraint, of the constraint set and
\* of the operation variable, and the name of the attribute holding the rate
operationModeCall(mode, constrName, constrSetName, opVarName, opRateName) ==
    [mode |-> mode, constrName |-> constrName, constrSetName |-> constrSetName,
     opVarName |-> opVarName, opRateName |-> opRateName]

operationModeCalls ==
    << operationModeCall(1, "ConstrCharge", "chargeOpConstrSet", "chargeOp", "chargeRate"),
       operationModeCall(2, "ConstrCharge", "chargeOpConstrSet", "chargeOp",
                         "processedChargeOpRateFix"),
       operationModeCall(3, "ConstrCharge", "chargeOpConstrSet", "chargeOp",
                         "processedChargeOpRateMax"),
       operationModeCall(4, "ConstrCharge", "chargeOpConstrSet", "chargeOp",
                         "processedCchargeOpRateFix"),
       operationModeCall(5, "ConstrCharge", "chargeOpConstrSet", "chargeOp",
                         "processedChargeOpRateMax"),
       operationModeCall(1, "ConstrDischarge", "dischargeOpConstrSet", "dischargeOp",
                         "dischargeRate"),
       operationModeCall(2, "ConstrDischarge", "dischargeOpConstrSet", "dischargeOp",
                         "processedDischargeOpRateFix"),
       operationModeCall(3, "ConstrDischarge", "dischargeOpConstrSet", "dischargeOp",
                         "processedDischargeOpRateMax"),
       operationModeCall(4, "ConstrDischarge", "dischargeOpConstrSet", "dischargeOp",
                         "processedDischargeOpRateFix"),
       operationModeCall(5, "ConstrDischarge", "dischargeOpConstrSet", "dischargeOp",
                         "processedDischargeOpRateMax") >>

\* The constraint declarations in the order declareComponentConstraints makes them
declarations(e, compDict, sets, pv) ==
    << connectSOCs(e, compDict, sets),
       cyclicState(e, sets, pv),
       cyclicLifetime(e, compDict, sets) >>
    \o (IF e.hasTSA
        THEN << connectInterPeriodSOC(e, compDict, sets, pv),
                intraSOCstart(e, sets),
                equalInterSOC(e, compDict, sets) >>
        ELSE <<>>)
    \o (IF ~e.hasTSA
        THEN << operationModeSOC(e, compDict, sets), minSOC(e, compDict, sets) >>
        ELSE limitSOCwithSimpleTsa(e, compDict, sets)
             \o << operationModeSOCwithTSA(e, compDict, sets, pv),
                   minSOCwithTSAprecise(e, compDict, sets, pv) >>)

\* The declarations that are attached before the first one that raises
RECURSIVE attached(_)
attached(ds) ==
    IF ds = <<>> \/ Head(ds).raised THEN <<>> ELSE <<Head(ds)>> \o attached(Tail(ds))

declareComponentConstraints(e, compDict, sets, pv) ==
    LET ds == declarations(e, compDict, sets, pv)
        done == attached(ds)
    IN  [ raised |-> Len(done) < Len(ds),
          declared |-> {done[n].name : n \in 1 .. Len(done)},
          rows |-> UNION {done[n].rows : n \in 1 .. Len(done)} ]

----------------------------------------------------------------------------
(* StorageModel.getObjectiveFunctionContribution *)

\* The indices of a variable declared over an ordered set of pairs and a second
\* index set, in the order a loop over the variable meets them
RECURSIVE productInOrder(_, _)
productInOrder(pairs, inner) ==
    IF pairs = <<>> THEN <<>>
    ELSE [n \in 1 .. Len(inner) |-> Head(pairs) \o inner[n]]
         \o productInOrder(Tail(pairs), inner)

\* ComponentModel.getEconomicsTI / getEconomicsTD: cost parameter times
\* variable, summed over the variable's indices; the cost parameters of the
\* components built here are the constructor's default 0, and none of them has
\* a build-decision variable (capexDec and opexDec are empty sums)
getEconomics(family, indices) ==
    [n \in 1 .. Len(indices) |-> Term(RZero, Var(family, indices[n]))]

\* sum(offset[loc, compName, period] * compDict[compName].socOffset...
\*     for loc, compName, period in offset)
offsetOp(family, indices, coef) ==
    [n \in 1 .. Len(indices) |-> Term(RInt(coef[indices[n][2]]), Var(family, indices[n]))]

\* An objective that prices the downward slacks with socOffsetUp too
getObjectiveFunctionContributionUpOnly(e, compDict, sets, pv) ==
    LET boundaries == SetToSeq(asTuples(IF e.hasTSA THEN e.interPeriodTimeSteps
                                        ELSE e.periods))
        up == productInOrder(SelectInOrder(sets.operationVarOrder, sets.varSetOffsetUp),
                             boundaries)
        down == productInOrder(SelectInOrder(sets.operationVarOrder, sets.varSetOffsetDown),
                               boundaries)
    IN  Expr(offsetOp("stateOfChargeOffsetUp", up, [c \in DOMAIN compDict |-> compDict[c].socOffsetUp])
             \o offsetOp("stateOfChargeOffsetDown", down, [c \in DOMAIN compDict |-> compDict[c].socOffsetUp]),
             RZero)

getObjectiveFunctionContribution(e, compDict, sets, pv) ==
    LET design == SelectInOrder(sets.operationVarOrder, sets.designDimensionVarSet)
        operation == productInOrder(sets.operationVarOrder, SetToSeq(timeSet(e)))
        boundaries == SetToSeq(asTuples(IF e.hasTSA THEN e.interPeriodTimeSteps
                                        ELSE e.periods))
        up == productInOrder(SelectInOrder(sets.operationVarOrder, sets.varSetOffsetUp),
                             boundaries)
        down == productInOrder(SelectInOrder(sets.operationVarOrder, sets.varSetOffsetDown),
                               boundaries)
        capexCap == getEconomics("cap", design)
        opexCap == getEconomics("cap", design)
        opexOp1 == getEconomics("chargeOp", operation)
        opexOp2 == getEconomics("dischargeOp", operation)
        offsetUpOp == offsetOp("stateOfChargeOffsetUp", up,
                               [c \in DOMAIN compDict |-> compDict[c].socOffsetUp])
        offsetDownOp == offsetOp("stateOfChargeOffsetDown", down,
                                 [c \in DOMAIN compDict |-> compDict[c].socOffsetDown])
    IN  Expr(capexCap \o opexCap \o opexOp1 \o opexOp2 \o offsetUpOp \o offsetDownOp, RZero)

----------------------------------------------------------------------------
(* StorageModel.hasOpVariablesForLocationCommodity, getCommodityBalanceContribution *)

hasOpVariablesForLocationCommodity(compDict, loc, commod) ==
    \E c \in DOMAIN compDict :
        compDict[c].commodity = commod /\ compDict[c].locationalEligibility[loc] = 1

\* The terms of  dischargeOp[loc, compName, p, t] - chargeOp[loc, compName, p, t]
\* for the names of a sequence
RECURSIVE balanceTerms(_, _, _)
balanceTerms(names, loc, pt) ==
    IF names = <<>> THEN <<>>
    ELSE << Term(ROne, Var("dischargeOp", <<loc, Head(names)>> \o pt)),
            Term(RNeg(ROne), Var("chargeOp", <<loc, Head(names)>> \o pt)) >>
         \o balanceTerms(Tail(names), loc, pt)

\* A balance contribution that does not look at the commodity
getCommodityBalanceContributionAnyCommodity(compDict, sets, commod, loc, p, t) ==
    Expr(balanceTerms(sets.operationVarDict[loc], loc, <<p, t>>), RZero)

getCommodityBalanceContribution(compDict, sets, commod, loc, p, t) ==
    Expr(balanceTerms(SelectInOrder(sets.operationVarDict[loc],
                                    {c \in DOMAIN compDict : compDict[c].commodity = commod}),
                      loc, <<p, t>>),
         RZero)

----------------------------------------------------------------------------
(* StorageModel.setOptimalValues, getOptimalValues *)

\* A pandas DataFrame is kept as a function from its row labels to the
\* sequence of the row's values, column 0 first.

\* var.get_values(): the values by index, None where the solver left none
get_values(s, family) == s[family]

\* The columns 0 .. last of a row (a label slice includes its end)
columnsUpTo(row, last) == SubSeq(row, 1, last + 1)

\* The values of one (location, component) and one period along the last index
periodRow(values, loc, compName, p) ==
    LET ts == {idx[4] : idx \in {i \in DOMAIN values : i[1] = loc /\ i[2] = compName /\ i[3] = p}}
    IN  [n \in 1 .. Cardinality(ts) |-> values[<<loc, compName, p, n - 1>>]]

\* The rows one after the other
RECURSIVE concat(_)
concat(rows) == IF rows = <<>> THEN <<>> ELSE Head(rows) \o concat(Tail(rows))

\* utils.formatOptimizationOutput(values, 'operationVariables', '1dim',
\* esM.periodsOrder): None without values, else one row per (component,
\* location) with the periods laid out in chronological order
formatOptimizationOutput(values, e) ==
    IF IsNone(values) THEN None
    ELSE LET v == Val(values)
             order == [n \in 1 .. Cardinality(e.periods) |-> e.periodsOrder[n - 1]]
         IN  Some([row \in {<<idx[2], idx[1]>> : idx \in DOMAIN v} |->
                      concat([n \in 1 .. Len(order) |->
                                 periodRow(v, row[2], row[1], order[n])])])

\* np.repeat(values, repList): every value as often as its entry of repList says
RECURSIVE repeat(_, _)
repeat(values, repList) ==
    IF values = <<>> THEN <<>>
    ELSE [n \in 1 .. Head(repList) |-> Head(values)] \o repeat(Tail(values), Tail(repList))

\* The intra-period frame: rows (period, component, location), columns the time
\* steps or segments; the inter-period frame: rows (component, location),
\* columns the inter-period indices
unstackIntra(values) ==
    [row \in {<<idx[3], idx[2], idx[1]>> : idx \in DOMAIN values} |->
        periodRow(values, row[3], row[2], row[1])]
unstackInter(values) ==
    [row \in {<<idx[2], idx[1]>> : idx \in DOMAIN values} |->
        LET ks == {idx[3] : idx \in {i \in DOMAIN values : i[1] = row[2] /\ i[2] = row[1]}}
        IN  [n \in 1 .. Cardinality(ks) |-> values[<<row[2], row[1], n - 1>>]]]

\* With segmentation the segments of each period are unravelled to the
\* original time steps
unravelSegments(e, intra) ==
    [row \in DOMAIN intra |->
        repeat(columnsUpTo(intra[row], lastSegment),
               [n \in 1 .. NumSegments |-> timeStepsPerSegment(row[1], n - 1)])]

\* A reassembly that reads the inter-period value at the typical period's index
reassembleSOCInterAtTypicalPeriod(e, intraValues, interValues) ==
    LET inter == unstackInter(interValues)
        unstacked == unstackIntra(intraValues)
        intra == IF e.segmentation THEN unravelSegments(e, unstacked) ELSE unstacked
    IN  [row \in DOMAIN inter |->
            concat([count \in 1 .. Cardinality(e.periods) |->
                       LET pp == e.periodsOrder[count - 1]
                           steps == columnsUpTo(intra[<<pp>> \o row], lastTimeStep)
                       IN  [n \in 1 .. Len(steps) |-> inter[row][pp + 1] + steps[n]]])]

\* The state of charge over the full horizon: for count, p in
\* enumerate(esM.periodsOrder) the inter-period value of count plus the
\* intra-period values of p
reassembleSOC(e, intraValues, interValues) ==
    LET inter == unstackInter(interValues)
        unstacked == unstackIntra(intraValues)
        intra == IF e.segmentation THEN unravelSegments(e, unstacked) ELSE unstacked
    IN  [row \in DOMAIN inter |->
            concat([count \in 1 .. Cardinality(e.periods) |->
                       LET pp == e.periodsOrder[count - 1]
                           steps == columnsUpTo(intra[<<pp>> \o row], lastTimeStep)
                       IN  [n \in 1 .. Len(steps) |-> inter[row][count] + steps[n]]])]

\* StorageModel.setOptimalValues(esM, pyM): the result fields it assigns and the
\* error it raises, if any.  A field it does not reach stays unassigned.
setOptimalValues(e, compDict, s) ==
    LET chargeOptVal == formatOptimizationOutput(get_values(s, "chargeOp"), e)
        dischargeOptVal == formatOptimizationOutput(get_values(s, "dischargeOp"), e)
        \* for compName in opSum.index: opSum is bound by the charge block only,
        \* and the loop reads .loc of the discharge optimum
        loopRaised ==
            IF IsNone(chargeOptVal) THEN "UnboundLocalError"
            ELSE IF IsNone(dischargeOptVal) THEN "AttributeError"
            ELSE "none"
        fullSOC == formatOptimizationOutput(get_values(s, "stateOfCharge"), e)
        stateOfChargeIntra == get_values(s, "stateOfCharge")
        stateOfChargeInter == get_values(s, "stateOfChargeInterPeriods")
        socRaised == IF ~e.hasTSA /\ IsNone(fullSOC) THEN "AttributeError" ELSE "none"
        socOptVal ==
            IF ~e.hasTSA
            THEN IF IsNone(fullSOC) THEN None
                 ELSE Some([row \in DOMAIN Val(fullSOC) |->
                               columnsUpTo(Val(fullSOC)[row], Len(Val(fullSOC)[row]) - 2)])
            ELSE IF ~IsNone(stateOfChargeIntra)
                 THEN Some(reassembleSOC(e, Val(stateOfChargeIntra), Val(stateOfChargeInter)))
                 ELSE None
        raised == IF loopRaised # "none" THEN loopRaised ELSE socRaised
    IN  [ raised |-> raised,
          assigned |->
              {"capacityVariablesOptimum", "isBuiltVariablesOptimum",
               "chargeOperationVariablesOptimum", "dischargeOperationVariablesOptimum"}
              \cup (IF raised = "none" THEN {"stateOfChargeOperationVariablesOptimum"} ELSE {}),
          capacityVariablesOptimum |-> Some("capacityVariablesOptimum"),
          isBuiltVariablesOptimum |-> Some("isBuiltVariablesOptimum"),
          chargeOperationVariablesOptimum |-> chargeOptVal,
          dischargeOperationVariablesOptimum |-> dischargeOptVal,
          stateOfChargeOperationVariablesOptimum |->
              IF raised = "none" THEN socOptVal ELSE None,
          dimension |-> "1dim" ]

\* One entry of the result of getOptimalValues
optimalValuesEntry(values, timeDependent, dimension) ==
    [values |-> values, timeDependent |-> timeDependent, dimension |-> dimension]

\* StorageModel.getOptimalValues(name)
getOptimalValues(o, name) ==
    IF name = "capacityVariablesOptimum"
    THEN optimalValuesEntry(o.capacityVariablesOptimum, FALSE, o.dimension)
    ELSE IF name = "isBuiltVariablesOptimum"
    THEN optimalValuesEntry(o.isBuiltVariablesOptimum, FALSE, o.dimension)
    ELSE IF name = "chargeOperationVariablesOptimum"
    THEN optimalValuesEntry(o.chargeOperationVariablesOptimum, TRUE, o.dimension)
    ELSE IF name = "dischargeOperationVariablesOptimum"
    THEN optimalValuesEntry(o.dischargeOperationVariablesOptimum, TRUE, o.dimension)
    ELSE IF name = "stateOfChargeOperationVariablesOptimum"
    THEN optimalValuesEntry(o.stateOfChargeOperationVariablesOptimum, TRUE, o.dimension)
    ELSE [capacityVariablesOptimum |->
              optimalValuesEntry(o.capacityVariablesOptimum, FALSE, o.dimension),
          isBuiltVariablesOptimum |->
              optimalValuesEntry(o.isBuiltVariablesOptimum, FALSE, o.dimension),
          chargeOperationVariablesOptimum |->
              optimalValuesEntry(o.chargeOperationVariablesOptimum, TRUE, o.dimension),
          dischargeOperationVariablesOptimum |->
              optimalValuesEntry(o.dischargeOperationVariablesOptimum, TRUE, o.dimension),
          stateOfChargeOperationVariablesOptimum |->
              optimalValuesEntry(o.stateOfChargeOperationVariablesOptimum, TRUE, o.dimension)]

----------------------------------------------------------------------------
(* The storage components a model is built from *)

Eligibilities ==
    { [loc \in Locations |-> IF loc \in S THEN 1 ELSE 0] : S \in (SUBSET Locations) \ {{}} }

NoSeries ==
    [chargeOpRateMax |-> None, chargeOpRateFix |-> None,
     dischargeOpRateMax |-> None, dischargeOpRateFix |-> None, partLoadMin |-> None]

\* Component "A": every combination of the flags the constraints branch on
ArgsA ==
    { [name |-> "A", commodity |-> "electricity",
       hasCapacityVariable |-> cap, doPreciseTsaModeling |-> precise,
       isPeriodicalStorage |-> periodic, socOffsetUp |-> up, socOffsetDown |-> down,
       cyclicLifetime |-> cl, locationalEligibility |-> el,
       economicLifetime |-> [loc \in Locations |-> IF loc = "l1" THEN 10 ELSE 20],
       chargeEfficiency |-> R(9, 10), dischargeEfficiency |-> R(4, 5),
       selfDischarge |-> R(1, 2), stateOfChargeMin |-> R(1, 10),
       stateOfChargeMax |-> R(9, 10)] @@ NoSeries
      : cap \in BOOLEAN, precise \in BOOLEAN, periodic \in BOOLEAN,
        up \in {-1, 2}, down \in {-1, 3}, cl \in {None, Some(5)}, el \in Eligibilities }

\* Component "B": the constructor's defaults but for the flags below
ArgsB ==
    { [name |-> "B", commodity |-> "hydrogen",
       hasCapacityVariable |-> cap, doPreciseTsaModeling |-> precise,
       isPeriodicalStorage |-> TRUE, socOffsetUp |-> 0, socOffsetDown |-> -1,
       cyclicLifetime |-> Some(3),
       locationalEligibility |-> [loc \in Locations |-> 1],
       economicLifetime |-> [loc \in Locations |-> 10],
       chargeEfficiency |-> ROne, dischargeEfficiency |-> ROne,
       selfDischarge |-> RZero, stateOfChargeMin |-> RZero,
       stateOfChargeMax |-> ROne] @@ NoSeries
      : cap \in BOOLEAN, precise \in BOOLEAN }

\* componentsDict after the components were constructed and registered
CompDicts ==
    { [n \in {"A"} |-> StorageInit(a)] : a \in ArgsA }
    \cup { [n \in {"A", "B"} |-> IF n = "A" THEN StorageInit(a) ELSE StorageInit(b)]
           : a \in ArgsA, b \in ArgsB }

----------------------------------------------------------------------------
(* The model build: declareSets, declareVariables, declareComponentConstraints *)

NoStorage == [raised |-> "none"]

\* pyM before any constraint is declared
NoConstraints == [raised |-> FALSE, declared |-> {}, rows |-> {}]

Init ==
    /\ esM \in EsMs
    /\ componentsDict \in CompDicts
    /\ registered = SetToSeq(DOMAIN componentsDict)
    /\ pySets = <<>>
    /\ pyVars = <<>>
    /\ pyConstr = NoConstraints
    /\ pyObj = None
    /\ pc = "new"
    /\ call = None
    /\ stor = NoStorage
    /\ spc = "unused"
    /\ sol = None
    /\ opt = None
    /\ ret = None
    /\ sds = None
    /\ parts = None

DeclareSets ==
    /\ pc = "new"
    /\ pySets' = declareSets(esM, componentsDict, registered)
    /\ pc' = "sets"
    /\ UNCHANGED groupingVars
    /\ UNCHANGED <<esM, componentsDict, registered, pyVars, pyConstr, pyObj, lifeVars, resultVars>>

DeclareVariables ==
    /\ pc = "sets"
    /\ pyVars' = declareVariables(esM, pySets)
    /\ pc' = "vars"
    /\ UNCHANGED groupingVars
    /\ UNCHANGED <<esM, componentsDict, registered, pySets, pyConstr, pyObj, lifeVars, resultVars>>

DeclareComponentConstraints ==
    /\ pc = "vars"
    /\ pyConstr' = declareComponentConstraints(esM, componentsDict, pySets, pyVars)
    /\ pc' = IF pyConstr'.raised THEN "raised" ELSE "constraints"
    /\ UNCHANGED groupingVars
    /\ UNCHANGED <<esM, componentsDict, registered, pySets, pyVars, pyObj, lifeVars, resultVars>>

\* The host adds the contribution to the objective once the constraints stand
GetObjectiveFunctionContribution ==
    /\ pc = "constraints"
    /\ pyObj' = Some(getObjectiveFunctionContribution(esM, componentsDict, pySets, pyVars))
    /\ pc' = "objective"
    /\ UNCHANGED groupingVars
    /\ UNCHANGED <<esM, componentsDict, registered, pySets, pyVars, pyConstr, lifeVars,
                   resultVars>>

Next ==
    \/ DeclareSets
    \/ DeclareVariables
    \/ DeclareComponentConstraints
    \/ GetObjectiveFunctionContribution

Spec == Init /\ [][Next]_vars

----------------------------------------------------------------------------
(* The host's queries on a declared model *)

\* Models whose declaration returns, with one or two components of the same
\* or of different commodities
QueriedCompDicts ==
    LET as == {a \in ArgsA : /\ a.hasCapacityVariable /\ ~a.doPreciseTsaModeling
                             /\ a.isPeriodicalStorage /\ IsNone(a.cyclicLifetime)
                             /\ a.socOffsetUp < 0 /\ a.socOffsetDown < 0}
        bs == {[b EXCEPT !.commodity = com] :
                  b \in {x \in ArgsB : x.hasCapacityVariable /\ ~x.doPreciseTsaModeling},
                  com \in Commodities}
    IN  { [n \in {"A"} |-> StorageInit(a)] : a \in as }
        \cup { [n \in {"A", "B"} |-> IF n = "A" THEN StorageInit(a) ELSE StorageInit(b)]
               : a \in as, b \in bs }

InitQueries ==
    /\ esM \in EsMs
    /\ componentsDict \in QueriedCompDicts
    /\ registered = SetToSeq(DOMAIN componentsDict)
    /\ pySets = <<>>
    /\ pyVars = <<>>
    /\ pyConstr = NoConstraints
    /\ pyObj = None
    /\ pc = "new"
    /\ call = None
    /\ stor = NoStorage
    /\ spc = "unused"
    /\ sol = None
    /\ opt = None
    /\ ret = None
    /\ sds = None
    /\ parts = None

\* The host asks for the contribution to the balance of (commod, loc, p, t)
GetCommodityBalanceContribution ==
    /\ pc = "constraints"
    /\ \E commod \in Commodities, loc \in Locations, pt \in timeSet(esM) :
           ret' = Some([op |-> "getCommodityBalanceContribution",
                        commod |-> commod, loc |-> loc, pt |-> pt,
                        value |-> getCommodityBalanceContribution(
                                      componentsDict, pySets, commod, loc, pt[1], pt[2])])
    /\ UNCHANGED groupingVars
    /\ UNCHANGED <<esM, componentsDict, registered, pySets, pyVars, pyConstr, pyObj, pc,
                   lifeVars, sol, opt>>

HasOpVariablesForLocationCommodity ==
    /\ pc = "constraints"
    /\ \E commod \in Commodities, loc \in Locations :
           ret' = Some([op |-> "hasOpVariablesForLocationCommodity",
                        commod |-> commod, loc |-> loc, pt |-> <<>>,
                        value |-> hasOpVariablesForLocationCommodity(
                                      componentsDict, loc, commod)])
    /\ UNCHANGED groupingVars
    /\ UNCHANGED <<esM, componentsDict, registered, pySets, pyVars, pyConstr, pyObj, pc,
                   lifeVars, sol, opt>>

NextQueries ==
    \/ DeclareSets
    \/ DeclareVariables
    \/ DeclareComponentConstraints
    \/ GetCommodityBalanceContribution
    \/ HasOpVariablesForLocationCommodity

SpecQueries == InitQueries /\ [][NextQueries]_vars

----------------------------------------------------------------------------
(* Solving a declared model and reading the results *)

\* Models whose declaration returns: component A alone or with a component B
ResultCompDicts ==
    {d \in QueriedCompDicts : "B" \in DOMAIN d => d["B"].commodity = "hydrogen"}

\* The value the solver leaves on a variable: told apart by location, component,
\* period and time step, and by the run
LocationNumber(loc) == IF loc = "l1" THEN 1 ELSE 2
SolvedValue(idx, run) ==
    LocationNumber(idx[1]) + (IF idx[2] = "A" THEN 0 ELSE 4) + run
    + (IF Len(idx) = 4 THEN 100 * (idx[3] + 1) + 10 * idx[4] ELSE 1000 * (idx[3] + 1))

\* The runs of the solver that are told apart
Runs == {0, 3}

\* What a solver run leaves behind: values on all indices of a family, or none
Solutions(e, pv) ==
    { [chargeOp |-> IF c THEN Some([i \in pv["chargeOp"].index |-> SolvedValue(i, run)])
                    ELSE None,
       dischargeOp |-> IF d THEN Some([i \in pv["dischargeOp"].index |-> SolvedValue(i, run)])
                       ELSE None,
       stateOfCharge |->
           IF soc THEN Some([i \in pv["stateOfCharge"].index |-> SolvedValue(i, run)])
           ELSE None,
       stateOfChargeInterPeriods |->
           IF soc /\ e.hasTSA
           THEN Some([i \in pv["stateOfChargeInterPeriods"].index |-> SolvedValue(i, run)])
           ELSE None]
      : c \in BOOLEAN, d \in BOOLEAN, soc \in BOOLEAN, run \in Runs }

\* The names getOptimalValues is asked for
QueriedNames ==
    {"capacityVariables", "isBuiltVariables", "capacityVariablesOptimum",
     "isBuiltVariablesOptimum", "chargeOperationVariablesOptimum",
     "dischargeOperationVariablesOptimum", "stateOfChargeOperationVariablesOptimum",
     "all", "TAC"}

InitResults ==
    /\ esM \in EsMs
    /\ componentsDict \in ResultCompDicts
    /\ registered = SetToSeq(DOMAIN componentsDict)
    /\ pySets = <<>>
    /\ pyVars = <<>>
    /\ pyConstr = NoConstraints
    /\ pyObj = None
    /\ pc = "new"
    /\ call = None
    /\ stor = NoStorage
    /\ spc = "unused"
    /\ sol = None
    /\ opt = None
    /\ ret = None
    /\ sds = None
    /\ parts = None

\* The solver has run on the declared model
Solve ==
    /\ pc = "constraints"
    /\ sol' \in {Some(x) : x \in Solutions(esM, pyVars)}
    /\ pc' = "solved"
    /\ UNCHANGED groupingVars
    /\ UNCHANGED <<esM, componentsDict, registered, pySets, pyVars, pyConstr, pyObj,
                   lifeVars, opt, ret>>

SetOptimalValues ==
    /\ pc = "solved"
    /\ opt' = Some(setOptimalValues(esM, componentsDict, Val(sol)))
    /\ pc' = IF Val(opt').raised = "none" THEN "optimal" ELSE "optimalRaised"
    /\ UNCHANGED groupingVars
    /\ UNCHANGED <<esM, componentsDict, registered, pySets, pyVars, pyConstr, pyObj,
                   lifeVars, sol, ret>>

GetOptimalValues ==
    /\ pc = "optimal"
    /\ \E name \in QueriedNames :
           ret' = Some([op |-> "getOptimalValues", name |-> name,
                        value |-> getOptimalValues(Val(opt), name)])
    /\ UNCHANGED groupingVars
    /\ UNCHANGED <<esM, componentsDict, registered, pySets, pyVars, pyConstr, pyObj, pc,
                   lifeVars, sol, opt>>

NextResults ==
    \/ DeclareSets
    \/ DeclareVariables
    \/ DeclareComponentConstraints
    \/ Solve
    \/ SetOptimalValues
    \/ GetOptimalValues

SpecResults == InitResults /\ [][NextResults]_vars

----------------------------------------------------------------------------
(* The model build for every order of registration *)

\* Two registered components; A with the flags the sets branch on
OrderedCompDicts ==
    LET as == {a \in ArgsA : /\ ~a.doPreciseTsaModeling /\ a.isPeriodicalStorage
                             /\ ~IsNone(a.cyclicLifetime) /\ a.socOffsetDown >= 0}
    IN  { [n \in {"A", "B"} |-> IF n = "A" THEN StorageInit(a) ELSE StorageInit(b)]
          : a \in as, b \in ArgsB }

\* The orders in which the names of a dictionary can have been registered
RegistrationOrders(compDict) ==
    {o \in [1 .. Cardinality(DOMAIN compDict) -> DOMAIN compDict] :
        Range(o) = DOMAIN compDict}

InitOrder ==
    /\ esM \in EsMs
    /\ componentsDict \in OrderedCompDicts
    /\ registered \in RegistrationOrders(componentsDict)
    /\ pySets = <<>>
    /\ pyVars = <<>>
    /\ pyConstr = NoConstraints
    /\ pyObj = None
    /\ pc = "new"
    /\ call = None
    /\ stor = NoStorage
    /\ spc = "unused"
    /\ sol = None
    /\ opt = None
    /\ ret = None
    /\ sds = None
    /\ parts = None

SpecOrder == InitOrder /\ [][Next]_vars

----------------------------------------------------------------------------
(* Operating a declared storage: values on the variables of the model *)

\* The value of a linear expression under an assignment of values to variables
RECURSIVE ValueOfTerms(_, _)
ValueOfTerms(terms, asg) ==
    IF terms = <<>> THEN RZero
    ELSE RNorm(RAdd(RMul(Head(terms)[1], asg[Head(terms)[2]]),
                    ValueOfTerms(Tail(terms), asg)))
ValueOf(expr, asg) == RNorm(RAdd(expr.const, ValueOfTerms(expr.terms, asg)))

\* A relation holds under an assignment
Satisfied(con, asg) ==
    LET l == ValueOf(con.lhs, asg)
        r == ValueOf(con.rhs, asg)
    IN  IF con.sense = "==" THEN REq(l, r)
        ELSE IF con.sense = "<=" THEN RLe(l, r)
        ELSE RLe(r, l)

\* The value an equality leaves for variable v once the other variables have theirs
SolvedFor(con, v, asg) ==
    LET at(x) == [w \in DOMAIN asg \cup {v} |-> IF w = v THEN x ELSE asg[w]]
        excess(x) == RNorm(RSub(ValueOf(con.lhs, at(x)), ValueOf(con.rhs, at(x))))
    IN  RNorm(RDiv(RNeg(excess(RZero)), RSub(excess(ROne), excess(RZero))))

\* An assignment is feasible: every declared row holds and every variable is in
\* its domain
Feasible(rows, pv, asg) ==
    /\ \A r \in rows : Satisfied(r.con, asg)
    /\ \A v \in DOMAIN asg :
           pv[v[1]].domain = "NonNegativeReals" => RLe(RZero, asg[v])

\* One storage at one location, without aggregation: efficiencies 0.9, no
\* self-discharge, state of charge between 0 and the capacity; the cyclic
\* boundary strict or relaxed
OperatedArgs ==
    { [name |-> "A", commodity |-> "electricity",
       hasCapacityVariable |-> TRUE, doPreciseTsaModeling |-> FALSE,
       isPeriodicalStorage |-> TRUE, socOffsetUp |-> off[1], socOffsetDown |-> off[2],
       cyclicLifetime |-> None,
       locationalEligibility |-> [loc \in Locations |-> IF loc = "l1" THEN 1 ELSE 0],
       economicLifetime |-> [loc \in Locations |-> 10],
       chargeEfficiency |-> R(9, 10), dischargeEfficiency |-> R(9, 10),
       selfDischarge |-> RZero, stateOfChargeMin |-> RZero,
       stateOfChargeMax |-> ROne] @@ NoSeries
      : off \in {<<-1, -1>>, <<2, 3>>} }

\* The capacity of the storage and the flows and initial states it is run with
OperatedCapacity == RInt(10)
ChargeFlows == {RZero, RInt(5)}
DischargeFlows == {RZero, R(81, 20), R(9, 2)}
InitialStates == {RZero, ROne}

\* The variables of the operated pair
OperatedPair == <<"l1", "A">>
SOCVar(t) == Var("stateOfCharge", OperatedPair \o <<0, t>>)
ChargeVar(t) == Var("chargeOp", OperatedPair \o <<0, t>>)
DischargeVar(t) == Var("dischargeOp", OperatedPair \o <<0, t>>)
SlackVars == {v \in {Var("stateOfChargeOffsetUp", OperatedPair \o <<0>>),
                     Var("stateOfChargeOffsetDown", OperatedPair \o <<0>>)} :
                 v[2] \in pyVars[v[1]].index}

\* The time steps that have their flows
StepsTaken(asg) == Cardinality({t \in timeStepsPerPeriod : ChargeVar(t) \in DOMAIN asg})

InitOperate ==
    /\ esM \in {e \in EsMs : ~e.hasTSA}
    /\ componentsDict \in {[n \in {"A"} |-> StorageInit(a)] : a \in OperatedArgs}
    /\ registered = SetToSeq(DOMAIN componentsDict)
    /\ pySets = <<>>
    /\ pyVars = <<>>
    /\ pyConstr = NoConstraints
    /\ pyObj = None
    /\ pc = "new"
    /\ call = None
    /\ stor = NoStorage
    /\ spc = "unused"
    /\ sol = None
    /\ opt = None
    /\ ret = None
    /\ sds = None
    /\ parts = None

\* The capacity and the state of charge the horizon starts with
StartOperation ==
    /\ pc = "constraints"
    /\ \E s0 \in InitialStates :
           sol' = Some((Var("cap", OperatedPair) :> OperatedCapacity) @@ (SOCVar(0) :> s0))
    /\ pc' = "operating"
    /\ UNCHANGED groupingVars
    /\ UNCHANGED <<esM, componentsDict, registered, pySets, pyVars, pyConstr, pyObj,
                   lifeVars, opt, ret>>

\* The flows of the next time step; ConstrConnectSOC leaves one value for the
\* state of charge after it
OperateTimeStep ==
    /\ pc = "operating"
    /\ StepsTaken(Val(sol)) < NumTimeSteps
    /\ \E c \in ChargeFlows, d \in DischargeFlows :
           LET t == StepsTaken(Val(sol))
               flows == (ChargeVar(t) :> c) @@ (DischargeVar(t) :> d) @@ Val(sol)
               row == CHOOSE r \in pyConstr.rows :
                          r.name = "ConstrConnectSOC" /\ r.idx = OperatedPair \o <<0, t>>
           IN  sol' = Some((SOCVar(t + 1) :> SolvedFor(row.con, SOCVar(t + 1), flows))
                           @@ flows)
    /\ UNCHANGED groupingVars
    /\ UNCHANGED <<esM, componentsDict, registered, pySets, pyVars, pyConstr, pyObj, pc,
                   lifeVars, opt, ret>>

\* The slacks of the cyclic boundary, where they exist, take a value
CloseCycle ==
    /\ pc = "operating"
    /\ StepsTaken(Val(sol)) = NumTimeSteps
    /\ LET gap == RNorm(RSub(Val(sol)[SOCVar(0)], Val(sol)[SOCVar(NumTimeSteps)]))
           size == IF RLe(RZero, gap) THEN gap ELSE RNeg(gap)
       IN  \E slacks \in [SlackVars -> {RZero, size}] : sol' = Some(slacks @@ Val(sol))
    /\ pc' = "operated"
    /\ UNCHANGED groupingVars
    /\ UNCHANGED <<esM, componentsDict, registered, pySets, pyVars, pyConstr, pyObj,
                   lifeVars, opt, ret>>

NextOperate ==
    \/ DeclareSets
    \/ DeclareVariables
    \/ DeclareComponentConstraints
    \/ StartOperation
    \/ OperateTimeStep
    \/ CloseCycle

SpecOperate == InitOperate /\ [][NextOperate]_vars

----------------------------------------------------------------------------
(* The life cycle of one Storage: construction, then any sequence of         *)
(* setAggregatedTimeSeriesData(data) and setTimeSeriesData(hasTSA)           *)

\* The part-load minimum the life cycle uses, in tenths like the series
PartLoadMinTenths == 5

\* Operation-rate series a caller supplies: one inside the part-load range,
\* one with a value between 0 and the part-load minimum, or none
SuppliedSeries ==
    { None,
      Some([i \in SeriesIndex |-> IF i[2] = 0 THEN 0 ELSE 10]),
      Some([i \in SeriesIndex |-> IF i = <<"l1", 1>> THEN 3 ELSE 5]) }

\* Commodities a caller names: one the host knows, one it does not
CalledCommodities == {"electricity", "heat"}

\* The remaining arguments of the call
DefaultArgs == CHOOSE b \in ArgsB : b.hasCapacityVariable /\ ~b.doPreciseTsaModeling

ConstructorCalls ==
    { [DefaultArgs EXCEPT !.name = "S", !.commodity = com, !.partLoadMin = plm,
                          !.chargeOpRateMax = cmax, !.chargeOpRateFix = cfix,
                          !.dischargeOpRateMax = dmax, !.dischargeOpRateFix = dfix]
      : com \in CalledCommodities, plm \in {None, Some(PartLoadMinTenths)},
        cmax \in SuppliedSeries, cfix \in SuppliedSeries,
        dmax \in SuppliedSeries, dfix \in SuppliedSeries }

\* The clustered data the aggregation hands back, by rate name
ClusteredData ==
    { [rateName \in {"chargeRate_", "dischargeRate_"} |->
          [i \in SeriesIndex |-> IF rateName = "chargeRate_" THEN v ELSE 10 - v]]
      : v \in {5, 10} }

InitLife ==
    /\ esM = CHOOSE e \in EsMs : ~e.hasTSA
    /\ componentsDict = <<>>
    /\ registered = <<>>
    /\ pySets = <<>>
    /\ pyVars = <<>>
    /\ pyConstr = NoConstraints
    /\ pyObj = None
    /\ pc = "unused"
    /\ call = None
    /\ stor = NoStorage
    /\ spc = "new"
    /\ sol = None
    /\ opt = None
    /\ ret = None
    /\ sds = None
    /\ parts = None

\* Storage(esM, name, commodity, ...): the object exists only if __init__ returns
Construct ==
    /\ spc = "new"
    /\ \E a \in ConstructorCalls :
           LET s == StorageInit(a)
           IN  /\ call' = a
               /\ stor' = IF s.raised = "none" THEN s ELSE [raised |-> s.raised]
               /\ spc' = IF s.raised = "none" THEN "constructed" ELSE "raised"
    /\ UNCHANGED groupingVars
    /\ UNCHANGED <<esM, componentsDict, registered, pySets, pyVars, pyConstr, pyObj, pc,
                   resultVars>>

\* stor.setAggregatedTimeSeriesData(data)
SetAggregatedTimeSeriesData ==
    /\ spc \notin {"new", "raised"}
    /\ \E data \in ClusteredData : stor' = setAggregatedTimeSeriesData(stor, data)
    /\ spc' = "aggregated"
    /\ UNCHANGED groupingVars
    /\ UNCHANGED <<esM, componentsDict, registered, pySets, pyVars, pyConstr, pyObj, pc,
                   call, resultVars>>

\* stor.setTimeSeriesData(hasTSA)
SetTimeSeriesData ==
    /\ spc \notin {"new", "raised"}
    /\ \E hasTSA \in BOOLEAN :
           /\ stor' = setTimeSeriesData(stor, hasTSA)
           /\ spc' = IF hasTSA THEN "processedTSA" ELSE "processedFull"
    /\ UNCHANGED groupingVars
    /\ UNCHANGED <<esM, componentsDict, registered, pySets, pyVars, pyConstr, pyObj, pc,
                   call, resultVars>>

NextLife ==
    \/ Construct
    \/ SetAggregatedTimeSeriesData
    \/ SetTimeSeriesData

SpecLife == InitLife /\ [][NextLife]_vars

----------------------------------------------------------------------------
(* The grouping utilities (src/spagat/grouping_utils.py): preprocessing of a  *)
(* dataset of regions and the distance of two regions                         *)

\* An array is a function from its row index to a function from its column
\* index to a value, both counted from 0; a dictionary is a function from its
\* keys; a call that can raise returns [raised, value].

Regions == 0 .. (NumRegions - 1)
Samples == 0 .. (NumSamples - 1)
Components == 0 .. (NumComponents - 1)

Returned(v) == [raised |-> "none", value |-> v]
Raised(e) == [raised |-> e, value |-> None]

RAbs(a) == IF a[1] < 0 THEN RNeg(a) ELSE a

\* The sum of f over the set S
RECURSIVE RSumOver(_, _)
RSumOver(S, f) ==
    IF S = {} THEN RZero
    ELSE LET x == CHOOSE y \in S : TRUE
         IN  RNorm(RAdd(f[x], RSumOver(S \ {x}, f)))

\* The root of a number that is the square of a rational
IsSquare(n) == \E r \in 0 .. n : r * r = n
ISqrt(n) == CHOOSE r \in 0 .. n : r * r = n
RSqrt(a) == <<ISqrt(RNorm(a)[1]), ISqrt(RNorm(a)[2])>>

\* Mean and variance of column j of an array over its rows
columnMean(X, j) ==
    RNorm(RDiv(RSumOver(DOMAIN X, [i \in DOMAIN X |-> X[i][j]]), RInt(Cardinality(DOMAIN X))))
columnVariance(X, j) ==
    RNorm(RDiv(RSumOver(DOMAIN X,
                        [i \in DOMAIN X |->
                            RMul(RSub(X[i][j], columnMean(X, j)), RSub(X[i][j], columnMean(X, j)))]),
               RInt(Cardinality(DOMAIN X))))

\* sklearn.preprocessing.scale(X): every column centred on its mean and
\* divided by its standard deviation; a constant column is only centred
scale(X, cols) ==
    [i \in DOMAIN X |->
        [j \in cols |->
            LET deviation == IF REq(columnVariance(X, j), RZero) THEN ROne
                             ELSE RSqrt(columnVariance(X, j))
            IN  RNorm(RDiv(RSub(X[i][j], columnMean(X, j)), deviation))]]

\* The components of a variable whose values are not NaN
validComponentIds(da) == {c \in DOMAIN da : ~IsNone(da[c])}

\* The elements of a set of numbers in ascending order
RECURSIVE Ascending(_)
Ascending(S) ==
    IF S = {} THEN <<>>
    ELSE LET x == CHOOSE y \in S : \A z \in S : y <= z
         IN  <<x>> \o Ascending(S \ {x})

\* preprocessTimeSeries(vars_dict, n_components)
preprocessTimeSeries(vars_dict) ==
    IF DOMAIN vars_dict = {} THEN None
    ELSE Some([var \in DOMAIN vars_dict |->
                  [c \in validComponentIds(vars_dict[var]) |->
                      scale(Val(vars_dict[var][c]), Samples)]])

\* preprocess1dVariables(vars_dict, n_components): per variable the array
\* regions x valid components, scaled
preprocess1dVariables(vars_dict) ==
    IF DOMAIN vars_dict = {} THEN None
    ELSE Some([var \in DOMAIN vars_dict |->
                  LET ids == Ascending(validComponentIds(vars_dict[var]))
                      dataT == [r \in Regions |->
                                   [j \in 0 .. (Len(ids) - 1) |->
                                       Val(vars_dict[var][ids[j + 1]])[r]]]
                  IN  scale(dataT, 0 .. (Len(ids) - 1))])

\* The position of a region in an order of the regions
positionIn(space, r) == CHOOSE k \in 1 .. Len(space) : space[k] = r

\* pd.DataFrame(data=var_matr, columns=space2)[space1]: the columns in the
\* order of the regions of the first axis
rearrangeColumns(var_matr, space1, space2) ==
    [i \in DOMAIN var_matr |->
        [j \in 0 .. (Len(space1) - 1) |->
            var_matr[i][positionIn(space2, space1[j + 1]) - 1]]]

\* hierarchy.distance.squareform(data): the entries above the diagonal, row by row
RECURSIVE upperTriangleFrom(_, _, _)
upperTriangleFrom(data, i, n) ==
    IF i >= n - 1 THEN <<>>
    ELSE [k \in 1 .. (n - 1 - i) |-> data[i][i + k]] \o upperTriangleFrom(data, i + 1, n)
squareform(data) ==
    LET s == upperTriangleFrom(data, 0, Cardinality(DOMAIN data))
    IN  [k \in 0 .. (Len(s) - 1) |-> s[k + 1]]

\* MinMaxScaler().fit_transform on one column: (x - min) / (max - min), and
\* x - min where all values are equal
minMaxScaled(vec) ==
    LET lo == CHOOSE x \in {vec[k] : k \in DOMAIN vec} :
                  \A y \in {vec[k] : k \in DOMAIN vec} : RLe(x, y)
        hi == CHOOSE x \in {vec[k] : k \in DOMAIN vec} :
                  \A y \in {vec[k] : k \in DOMAIN vec} : RLe(y, x)
        range == IF REq(hi, lo) THEN ROne ELSE RSub(hi, lo)
    IN  [k \in DOMAIN vec |-> RNorm(RDiv(RSub(vec[k], lo), range))]

\* preprocess2dVariables(vars_dict, component_list, handle_mode)
preprocess2dVariables(vars_dict, handle_mode) ==
    IF DOMAIN vars_dict = {} THEN Returned(None)
    ELSE LET ds_2d ==
                 [var \in DOMAIN vars_dict |->
                     [c \in validComponentIds(vars_dict[var].values) |->
                         rearrangeColumns(Val(vars_dict[var].values[c]),
                                          vars_dict[var].space, vars_dict[var].space_2)]]
         IN  IF handle_mode = "toDissimilarity"
             THEN Returned(Some([var \in DOMAIN ds_2d |->
                                    [c \in DOMAIN ds_2d[var] |->
                                        LET vec == minMaxScaled(squareform(ds_2d[var][c]))
                                        IN  [k \in DOMAIN vec |-> RNorm(RSub(ROne, vec[k]))]]]))
             ELSE IF handle_mode = "extract"
             \* dataset, vars_list and weight_factors are not defined in this function
             THEN Raised("NameError")
             ELSE Returned(None)

\* The variables of the dataset with the given dimensions
varsWithDims(dataset, dims) ==
    [v \in {w \in DOMAIN dataset.data_vars : dataset.data_vars[w].dims = dims} |->
        dataset.data_vars[v].da]

\* preprocessDataset(sds, handle_mode=...): the three parts, or the error
preprocessDataset(dataset, handle_mode) ==
    LET vars_ts == varsWithDims(dataset, <<"component", "Period", "TimeStep", "space">>)
        vars_1d == varsWithDims(dataset, <<"component", "space">>)
        vars_2d == varsWithDims(dataset, <<"component", "space", "space_2">>)
        ds_2d_vars == preprocess2dVariables(vars_2d, "toDissimilarity")
    IN  IF ds_2d_vars.raised # "none" THEN Raised(ds_2d_vars.raised)
        ELSE Returned(<<preprocessTimeSeries(vars_ts), preprocess1dVariables(vars_1d),
                        ds_2d_vars.value>>)

\* The index selfDistance reads the distance vectors of the 2d variables at
index_regA_regB(n_regions, a, b) == a * (n_regions - a) + (b - a) - 1

\* The weight factor of a variable; without weightings every variable weighs 1
weightFactor(var_weightings, var) ==
    IF IsNone(var_weightings) THEN ROne ELSE RInt(Val(var_weightings)[var])

\* The time series part of the distance: the weighted sum of the differences
\* and the weighted number of values
distanceTs(ds_ts, a, b, w) ==
    RSumOver(DOMAIN ds_ts,
             [var \in DOMAIN ds_ts |->
                 RSumOver(DOMAIN ds_ts[var],
                          [c \in DOMAIN ds_ts[var] |->
                              RMul(RSumOver(Samples,
                                            [t \in Samples |->
                                                RAbs(RSub(ds_ts[var][c][a][t],
                                                          ds_ts[var][c][b][t]))]),
                                   weightFactor(w, var))])])
lengthTs(ds_ts, w) ==
    RSumOver(DOMAIN ds_ts,
             [var \in DOMAIN ds_ts |->
                 RMul(RInt(Cardinality(DOMAIN ds_ts[var]) * NumSamples), weightFactor(w, var))])

\* The 1d part
distance1d(ds_1d, a, b, w) ==
    RSumOver(DOMAIN ds_1d,
             [var \in DOMAIN ds_1d |->
                 RMul(RSumOver(DOMAIN ds_1d[var][a],
                               [j \in DOMAIN ds_1d[var][a] |->
                                   RAbs(RSub(ds_1d[var][a][j], ds_1d[var][b][j]))]),
                      weightFactor(w, var))])
length1d(ds_1d, a, w) ==
    RSumOver(DOMAIN ds_1d,
             [var \in DOMAIN ds_1d |->
                 RMul(RInt(Cardinality(DOMAIN ds_1d[var][a])), weightFactor(w, var))])

\* The 2d part: the values at the index are added as they are
distance2d(ds_2d, index, w) ==
    RSumOver(DOMAIN ds_2d,
             [var \in DOMAIN ds_2d |->
                 RSumOver(DOMAIN ds_2d[var],
                          [c \in DOMAIN ds_2d[var] |-> ds_2d[var][c][index]])])
length2d(ds_2d, w) ==
    RSumOver(DOMAIN ds_2d,
             [var \in DOMAIN ds_2d |->
                 RMul(RInt(Cardinality(DOMAIN ds_2d[var])), weightFactor(w, var))])

\* selfDistance(ds_ts, ds_1d, ds_2d, n_regions, a, b, var_weightings): the
\* distance, or the first error on the way to it
selfDistance(ds_ts, ds_1d, ds_2d, n_regions, a, b, var_weightings) ==
    LET index == index_regA_regB(n_regions, a, b)
        w == IF IsNone(var_weightings) \/ DOMAIN Val(var_weightings) = {}
             THEN None ELSE var_weightings
    IN  \* the default weightings read the keys of all three dictionaries
        IF IsNone(w) /\ (IsNone(ds_ts) \/ IsNone(ds_1d) \/ IsNone(ds_2d))
        THEN Raised("AttributeError")
        ELSE IF IsNone(ds_ts) THEN Raised("AttributeError")
        ELSE IF REq(lengthTs(Val(ds_ts), w), RZero) THEN Raised("ZeroDivisionError")
        ELSE IF IsNone(ds_1d) THEN Raised("AttributeError")
        ELSE IF REq(length1d(Val(ds_1d), a, w), RZero) THEN Raised("ZeroDivisionError")
        ELSE IF IsNone(ds_2d) THEN Raised("AttributeError")
        ELSE IF \E var \in DOMAIN Val(ds_2d) : \E c \in DOMAIN Val(ds_2d)[var] :
                    index \notin DOMAIN Val(ds_2d)[var][c]
        THEN Raised("IndexError")
        ELSE IF REq(length2d(Val(ds_2d), w), RZero) THEN Raised("ZeroDivisionError")
        ELSE Returned(RNorm(RAdd(RAdd(RDiv(distanceTs(Val(ds_ts), a, b, w),
                                           lengthTs(Val(ds_ts), w)),
                                      RDiv(distance1d(Val(ds_1d), a, b, w),
                                           length1d(Val(ds_1d), a, w))),
                                 RDiv(distance2d(Val(ds_2d), index, w),
                                      length2d(Val(ds_2d), w)))))

\* A distance matrix that is left with the entries above the diagonal only
selfDistanceMatrixUpperOnly(ds_ts, ds_1d, ds_2d, n_regions) ==
    LET ids == 0 .. (n_regions - 1)
        upper == {<<i, j>> \in ids \X ids : i < j}
        d == [ij \in upper |-> selfDistance(ds_ts, ds_1d, ds_2d, n_regions, ij[1], ij[2], None)]
        distMatrix == [i \in ids |-> [j \in ids |->
                          IF i < j THEN d[<<i, j>>].value ELSE RZero]]
        failed == {ij \in upper : d[ij].raised # "none"}
        first == CHOOSE ij \in failed :
                     \A kl \in failed : ij[1] < kl[1] \/ (ij[1] = kl[1] /\ ij[2] <= kl[2])
    IN  IF failed # {}
        THEN Raised(d[first].raised)
        ELSE Returned([i \in ids |-> [j \in ids |->
                          distMatrix[i][j]]])

\* selfDistanceMatrix(ds_ts, ds_1d, ds_2d, n_regions): the entries above the
\* diagonal are filled, then the transpose is added and the diagonal taken off
selfDistanceMatrix(ds_ts, ds_1d, ds_2d, n_regions) ==
    LET ids == 0 .. (n_regions - 1)
        upper == {<<i, j>> \in ids \X ids : i < j}
        d == [ij \in upper |-> selfDistance(ds_ts, ds_1d, ds_2d, n_regions, ij[1], ij[2], None)]
        distMatrix == [i \in ids |-> [j \in ids |->
                          IF i < j THEN d[<<i, j>>].value ELSE RZero]]
        failed == {ij \in upper : d[ij].raised # "none"}
        first == CHOOSE ij \in failed :
                     \A kl \in failed : ij[1] < kl[1] \/ (ij[1] = kl[1] /\ ij[2] <= kl[2])
    IN  IF failed # {}
        THEN Raised(d[first].raised)
        ELSE Returned([i \in ids |-> [j \in ids |->
                          RNorm(RSub(RAdd(distMatrix[i][j], distMatrix[j][i]),
                                     IF i = j THEN distMatrix[i][i] ELSE RZero))]])

----------------------------------------------------------------------------
(* Grouping regions: a dataset is preprocessed, then distances are asked for *)

\* Columns of region values that scale to rationals: 2 for the first s
\* regions, 0 for the others, where the variance is the square of a rational
StepColumn(s) == [r \in Regions |-> RInt(IF r < s THEN 2 ELSE 0)]
Scalable(col) ==
    LET v == columnVariance([r \in Regions |-> [j \in {0} |-> col[r]]], 0)
    IN  IsSquare(v[1]) /\ IsSquare(v[2])
ScalableColumns == {c \in {StepColumn(s) : s \in 0 .. NumRegions} : Scalable(c)}

\* Connectivity matrices: symmetric, zero diagonal, non-negative; one with a
\* different value for every pair of regions, one with the same value for all
PairMatrix ==
    [i \in Regions |-> [j \in Regions |->
        RInt(IF i = j THEN 0 ELSE NumRegions * (IF i < j THEN i ELSE j) + (IF i < j THEN j ELSE i))]]
FlatMatrix == [i \in Regions |-> [j \in Regions |-> RInt(IF i = j THEN 0 ELSE 1)]]

\* The orders the regions of the second axis come in
SpaceOrders == {[k \in 1 .. NumRegions |-> k - 1], [k \in 1 .. NumRegions |-> NumRegions - k]}

\* A symmetric matrix as the dataset holds it, its columns in the order space_2
stored(matrix, space_2) ==
    [i \in Regions |-> [k \in 0 .. (NumRegions - 1) |-> matrix[i][space_2[k + 1]]]]

\* Only component 0 has values, or all components have
onlyFirst(array) == [c \in Components |-> IF c = 0 THEN Some(array) ELSE None]
allComponents(array) == [c \in Components |-> Some(array)]

\* The variables a dataset can hold, by name
DataVars(column, space_2) ==
    [ ts_operationRateMax |->
          [dims |-> <<"component", "Period", "TimeStep", "space">>,
           da |-> onlyFirst([r \in Regions |-> [t \in Samples |-> column[r]]])],
      capacityFix_1d |->
          [dims |-> <<"component", "space">>,
           da |-> allComponents(column)],
      distances_2d |->
          [dims |-> <<"component", "space", "space_2">>,
           da |-> [space |-> [k \in 1 .. NumRegions |-> k - 1], space_2 |-> space_2,
                   values |-> onlyFirst(stored(PairMatrix, space_2))]],
      capacities_2d |->
          [dims |-> <<"component", "space", "space_2">>,
           da |-> [space |-> [k \in 1 .. NumRegions |-> k - 1], space_2 |-> space_2,
                   values |-> allComponents(stored(FlatMatrix, space_2))]] ]

\* sds.xr_dataset: any selection of the variables
Datasets ==
    { [component_list |-> [c \in Components |-> c],
       n_regions |-> NumRegions,
       data_vars |-> [v \in names |-> DataVars(column, space_2)[v]]]
      : names \in SUBSET {"ts_operationRateMax", "capacityFix_1d", "distances_2d",
                          "capacities_2d"},
        column \in ScalableColumns, space_2 \in SpaceOrders }

\* The weightings a caller passes: none, or a factor for every variable
Weightings(dataset) ==
    {None}
    \cup {Some([v \in DOMAIN dataset.data_vars |-> k]) : k \in {1, 2}}
    \cup {Some([v \in DOMAIN dataset.data_vars |-> IF v = "distances_2d" THEN 3 ELSE 1])}

HandleModes == {"toDissimilarity", "extract"}

InitGrouping ==
    /\ esM = CHOOSE e \in EsMs : ~e.hasTSA
    /\ componentsDict = <<>>
    /\ registered = <<>>
    /\ pySets = <<>>
    /\ pyVars = <<>>
    /\ pyConstr = NoConstraints
    /\ pyObj = None
    /\ pc = "unused"
    /\ call = None
    /\ stor = NoStorage
    /\ spc = "unused"
    /\ sol = None
    /\ opt = None
    /\ ret = None
    /\ sds \in {Some(d) : d \in Datasets}
    /\ parts = None

storageVars == <<esM, componentsDict, registered, pySets, pyVars, pyConstr, pyObj, pc,
                 lifeVars, sol, opt>>

\* preprocessDataset(sds, handle_mode=mode)
PreprocessDataset ==
    /\ IsNone(parts)
    /\ \E mode \in HandleModes :
           parts' = Some([handle_mode |-> mode]
                         @@ preprocessDataset(Val(sds), mode))
    /\ UNCHANGED <<storageVars, ret, sds>>

\* The parts as they are handed on: as returned, or with an empty dictionary
\* in the place of a part that is None
HandedOn(value, emptyDictionaries) ==
    [n \in 1 .. 3 |-> IF IsNone(value[n]) /\ emptyDictionaries THEN Some(<<>>) ELSE value[n]]

\* selfDistance(ds_ts, ds_1d, ds_2d, n_regions, a, b, var_weightings)
SelfDistance ==
    /\ ~IsNone(parts)
    /\ Val(parts).raised = "none"
    /\ \E a \in Regions, b \in Regions, w \in Weightings(Val(sds)), empty \in BOOLEAN :
           /\ a < b
           /\ LET args == HandedOn(Val(parts).value, empty)
              IN  ret' = Some([op |-> "selfDistance", a |-> a, b |-> b,
                               var_weightings |-> w, args |-> args,
                               result |-> selfDistance(args[1], args[2], args[3],
                                                       Val(sds).n_regions, a, b, w)])
    /\ UNCHANGED <<storageVars, sds, parts>>

\* selfDistanceMatrix(ds_ts, ds_1d, ds_2d, n_regions)
SelfDistanceMatrix ==
    /\ ~IsNone(parts)
    /\ Val(parts).raised = "none"
    /\ \E empty \in BOOLEAN :
           LET args == HandedOn(Val(parts).value, empty)
           IN  ret' = Some([op |-> "selfDistanceMatrix", args |-> args,
                            result |-> selfDistanceMatrix(args[1], args[2], args[3],
                                                          Val(sds).n_regions)])
    /\ UNCHANGED <<storageVars, sds, parts>>

NextGrouping ==
    \/ PreprocessDataset
    \/ SelfDistance
    \/ SelfDistanceMatrix

SpecGrouping == InitGrouping /\ [][NextGrouping]_vars

----------------------------------------------------------------------------
(* Reading the declared constraints: the normal form  sum(coef * var) sense const *)

RECURSIVE CoefIn(_, _)
CoefIn(terms, v) ==
    IF terms = <<>> THEN RZero
    ELSE IF Head(terms)[2] = v THEN RAdd(Head(terms)[1], CoefIn(Tail(terms), v))
    ELSE CoefIn(Tail(terms), v)

\* The coefficient of variable v with everything brought to the left
Net(con, v) == RSub(CoefIn(con.lhs.terms, v), CoefIn(con.rhs.terms, v))
\* The constant with everything brought to the right
ConstNet(con) == RSub(con.rhs.const, con.lhs.const)
\* The variables a relation mentions with a coefficient other than 0
VarsOf(con) ==
    {v \in {con.lhs.terms[n][2] : n \in 1 .. Len(con.lhs.terms)}
           \cup {con.rhs.terms[n][2] : n \in 1 .. Len(con.rhs.terms)} :
        ~REq(Net(con, v), RZero)}

\* The relation is exactly  sum over cs of coef * var  sense  const
IsRelation(con, sense, cs, const) ==
    /\ con.sense = sense
    /\ VarsOf(con) = {c[2] : c \in cs}
    /\ \A c \in cs : REq(Net(con, c[2]), c[1])
    /\ REq(ConstNet(con), const)

RowsAt(name, idx) == {r \in pyConstr.rows : r.name = name /\ r.idx = idx}
RowsOf(name) == {r \in pyConstr.rows : r.name = name}
Declared(name) == name \in pyConstr.declared

\* The eligible (location, component) pairs, read off the components
Eligible ==
    {lc \in Locations \X DOMAIN componentsDict :
        componentsDict[lc[2]].locationalEligibility[lc[1]] = 1}

\* Every variable a declared constraint mentions is a declared variable
VarExists(v) == v[1] \in DOMAIN pyVars /\ v[2] \in pyVars[v[1]].index

----------------------------------------------------------------------------
(* C1 *)

\* The hours one step (p, t) of the time set stands for
StepHours(p, t) ==
    IF esM.segmentation THEN esM.hoursPerTimeStep * timeStepsPerSegment(p, t)
    ELSE esM.hoursPerTimeStep

\* C1: once connectSOCs has run, every eligible (location, component) pair and
\* every (p, t) of the time set has exactly one row of ConstrConnectSOC, the
\* equality SOC[p,t+1] - SOC[p,t]*(1-selfDischarge)^dh - chargeOp[p,t]*chargeEfficiency
\* + dischargeOp[p,t]/dischargeEfficiency = 0 with dh the hours of the time step
\* or, with segmentation, of the segment (p, t); there is no other row.
C1_ConnectSOCs ==
    Declared("ConstrConnectSOC") =>
        /\ \A r \in RowsOf("ConstrConnectSOC") :
               r.idx \in {lc \o pt : lc \in Eligible, pt \in timeSet(esM)}
        /\ \A lc \in Eligible : \A pt \in timeSet(esM) :
               LET c == componentsDict[lc[2]]
                   p == pt[1]
                   t == pt[2]
                   rows == RowsAt("ConstrConnectSOC", lc \o pt)
               IN  /\ Cardinality(rows) = 1
                   /\ \A r \in rows :
                          IsRelation(r.con, "==",
                              { <<ROne, Var("stateOfCharge", lc \o <<p, t + 1>>)>>,
                                <<RNeg(RPow(RSub(ROne, c.selfDischarge), StepHours(p, t))),
                                  Var("stateOfCharge", lc \o <<p, t>>)>>,
                                <<RNeg(c.chargeEfficiency), Var("chargeOp", lc \o <<p, t>>)>>,
                                <<RDiv(ROne, c.dischargeEfficiency),
                                  Var("dischargeOp", lc \o <<p, t>>)>> },
                              RZero)
                   /\ \A r \in rows : \A v \in VarsOf(r.con) : VarExists(v)

\* C1 witness: a model with segmentation whose balance rows are declared and in
\* which a segment stands for more hours than one time step
C1_Witness ==
    /\ pc = "constraints"
    /\ esM.segmentation
    /\ RowsOf("ConstrConnectSOC") # {}
    /\ \E pt \in timeSet(esM) : StepHours(pt[1], pt[2]) > esM.hoursPerTimeStep

----------------------------------------------------------------------------
(* C2 *)

\* The slack terms a boundary equality carries for component c at index idx:
\* -offsetUp if socOffsetUp >= 0, +offsetDown if socOffsetDown >= 0, else none
SlackTerms(c, idx) ==
    (IF c.socOffsetUp >= 0 THEN {<<RNeg(ROne), Var("stateOfChargeOffsetUp", idx)>>} ELSE {})
    \cup
    (IF c.socOffsetDown >= 0 THEN {<<ROne, Var("stateOfChargeOffsetDown", idx)>>} ELSE {})

\* The two ends the cyclic constraint ties together, and the boundary index of
\* its slacks
CyclicFirst(lc) ==
    IF esM.hasTSA THEN Var("stateOfChargeInterPeriods", lc \o <<0>>)
    ELSE Var("stateOfCharge", lc \o <<0, 0>>)
CyclicLast(lc) ==
    IF esM.hasTSA THEN Var("stateOfChargeInterPeriods", lc \o <<NumPeriods>>)
    ELSE Var("stateOfCharge", lc \o <<0, NumTimeSteps>>)
CyclicBoundary == IF esM.hasTSA THEN NumPeriods ELSE 0

\* C2: once cyclicState has run, every eligible pair has exactly one row of
\* ConstrCyclicState: first - last = offsetUp - offsetDown, where first and
\* last are SOC[0,0] and SOC[0,T] (without aggregation) or the inter-period SOC
\* at the first and the last inter-period index (with aggregation), a slack
\* appears only if the component's coefficient is >= 0 (so with both negative
\* first = last exactly), and every slack that appears is a declared
\* non-negative variable.
C2_CyclicState ==
    Declared("ConstrCyclicState") =>
        /\ \A r \in RowsOf("ConstrCyclicState") : r.idx \in Eligible
        /\ \A lc \in Eligible :
               LET c == componentsDict[lc[2]]
                   rows == RowsAt("ConstrCyclicState", lc)
                   slacks == SlackTerms(c, lc \o <<CyclicBoundary>>)
               IN  /\ Cardinality(rows) = 1
                   /\ \A r \in rows :
                          IsRelation(r.con, "==",
                              {<<ROne, CyclicFirst(lc)>>, <<RNeg(ROne), CyclicLast(lc)>>}
                                  \cup slacks,
                              RZero)
                   /\ \A r \in rows : \A v \in VarsOf(r.con) : VarExists(v)
                   /\ \A sl \in slacks : pyVars[sl[2][1]].domain = "NonNegativeReals"

\* C2 witness: the cyclic rows are declared for a model that holds a pair with
\* no relaxation and a pair relaxed upwards only
C2_Witness ==
    /\ pc = "constraints"
    /\ RowsOf("ConstrCyclicState") # {}
    /\ \E lc \in Eligible : componentsDict[lc[2]].socOffsetUp < 0
                            /\ componentsDict[lc[2]].socOffsetDown < 0
    /\ \E lc \in Eligible : componentsDict[lc[2]].socOffsetUp >= 0
                            /\ componentsDict[lc[2]].socOffsetDown < 0

----------------------------------------------------------------------------
(* C3 *)

\* The last intra-period SOC index of a typical period
EndOfPeriodIndex == IF esM.segmentation THEN NumSegments ELSE NumTimeSteps

\* C3: once connectInterPeriodSOC has run (aggregation), every eligible pair
\* and every chronological period k has exactly one row of ConstrInterSOC:
\* SOCinter[k+1] = SOCinter[k]*(1-selfDischarge)^(hours of a full period)
\* + SOCintra[periodsOrder[k], end-of-period index] + offsetUp[k] - offsetDown[k],
\* a slack appearing only if it exists.
C3_ConnectInterPeriodSOC ==
    Declared("ConstrInterSOC") =>
        /\ esM.hasTSA
        /\ \A r \in RowsOf("ConstrInterSOC") :
               r.idx \in {lc \o <<k>> : lc \in Eligible, k \in esM.periods}
        /\ \A lc \in Eligible : \A k \in esM.periods :
               LET c == componentsDict[lc[2]]
                   rows == RowsAt("ConstrInterSOC", lc \o <<k>>)
               IN  /\ Cardinality(rows) = 1
                   /\ \A r \in rows :
                          IsRelation(r.con, "==",
                              { <<ROne, Var("stateOfChargeInterPeriods", lc \o <<k + 1>>)>>,
                                <<RNeg(RPow(RSub(ROne, c.selfDischarge),
                                            NumTimeSteps * esM.hoursPerTimeStep)),
                                  Var("stateOfChargeInterPeriods", lc \o <<k>>)>>,
                                <<RNeg(ROne),
                                  Var("stateOfCharge",
                                      lc \o <<esM.periodsOrder[k], EndOfPeriodIndex>>)>> }
                                  \cup SlackTerms(c, lc \o <<k>>),
                              RZero)
                   /\ \A r \in rows : \A v \in VarsOf(r.con) : VarExists(v)

\* C3 witness: inter-period rows declared under segmentation, for a relaxed
\* component, with two chronological periods mapped to different typical periods
C3_Witness ==
    /\ pc = "constraints"
    /\ esM.segmentation
    /\ RowsOf("ConstrInterSOC") # {}
    /\ \E lc \in Eligible : componentsDict[lc[2]].socOffsetDown >= 0
    /\ \E k1, k2 \in esM.periods : esM.periodsOrder[k1] # esM.periodsOrder[k2]

----------------------------------------------------------------------------
(* C4 *)

\* The hours elapsed in chronological period k up to time step t
ElapsedHours(k, t) ==
    IF esM.segmentation
    THEN segmentStartTime(esM.periodsOrder[k], t) * esM.hoursPerTimeStep
    ELSE t * esM.hoursPerTimeStep

\* Some row of the named constraint at (lc, k, t) relates the reconstructed
\* state of charge R[k,t] = SOCinter[k]*(1-selfDischarge)^(elapsed hours)
\* + SOCintra[periodsOrder[k], t] in the given sense to the capacity share
\* (the capacity variable times the share where the pair has one)
BoundsReconstructedSOC(name, sense, share, lc, k, t) ==
    \E r \in RowsAt(name, lc \o <<k, t>>) :
        LET c == componentsDict[lc[2]]
        IN  /\ r.con.sense = sense
            /\ REq(Net(r.con, Var("stateOfChargeInterPeriods", lc \o <<k>>)),
                   RPow(RSub(ROne, c.selfDischarge), ElapsedHours(k, t)))
            /\ REq(Net(r.con, Var("stateOfCharge", lc \o <<esM.periodsOrder[k], t>>)), ROne)
            /\ c.hasCapacityVariable =>
                   /\ REq(Net(r.con, Var("cap", lc)), RNeg(share))
                   /\ REq(ConstNet(r.con), RZero)

\* The eligible pairs of precise components
PrecisePairs == {lc \in Eligible : componentsDict[lc[2]].doPreciseTsaModeling}

\* C4 (as stated): once the constraints of a model with aggregation are
\* declared, every eligible pair of a precise component, with or without a
\* capacity variable, has for every chronological period k and every time step
\* t of a period a row bounding R[k,t] from above (ConstrSOCMaxPrecise) and a
\* row bounding it from below (ConstrSOCMinPrecise).
C4_PreciseBoundsBothSides ==
    (pc = "constraints" /\ esM.hasTSA) =>
        \A lc \in PrecisePairs : \A k \in esM.periods : \A t \in timeStepsPerPeriod :
            /\ BoundsReconstructedSOC("ConstrSOCMaxPrecise", "<=",
                                      componentsDict[lc[2]].stateOfChargeMax, lc, k, t)
            /\ BoundsReconstructedSOC("ConstrSOCMinPrecise", ">=",
                                      componentsDict[lc[2]].stateOfChargeMin, lc, k, t)

----------------------------------------------------------------------------
(* C5 *)

\* The eligible pairs of components with the simplified formulation
SimplePairs == {lc \in Eligible : ~componentsDict[lc[2]].doPreciseTsaModeling}

\* declareComponentConstraints has run on a model with aggregation, whether it
\* returned or raised
BuiltWithTSA == pc \in {"constraints", "raised"} /\ esM.hasTSA

\* Exactly one row of the named constraint at (lc, k) relates
\* interCoef*SOCinter[k] + envelope[periodsOrder[k]] in the given sense to the
\* capacity share (the capacity variable times the share where the pair has one)
OneEnvelopeBound(name, sense, envelope, interCoef, share, lc, k) ==
    LET c == componentsDict[lc[2]]
        rows == RowsAt(name, lc \o <<k>>)
    IN  /\ Cardinality(rows) = 1
        /\ \A r \in rows :
               /\ r.con.sense = sense
               /\ REq(Net(r.con, Var("stateOfChargeInterPeriods", lc \o <<k>>)), interCoef)
               /\ REq(Net(r.con, Var(envelope, lc \o <<esM.periodsOrder[k]>>)), ROne)
               /\ c.hasCapacityVariable =>
                      /\ REq(Net(r.con, Var("cap", lc)), RNeg(share))
                      /\ REq(ConstNet(r.con), RZero)

\* C5 (as stated): once the constraints of a model with aggregation have been
\* declared, every eligible pair of a simplified component has (i) for every
\* (p, t) of the time set the rows SOCintra[p,t] <= stateOfChargeMax[p] and
\* SOCintra[p,t] >= stateOfChargeMin[p], and (ii) for every chronological
\* period k exactly one pair of rows: SOCinter[k] + stateOfChargeMax[periodsOrder[k]]
\* <= capacity*SOCmax and SOCinter[k]*(1-selfDischarge)^(hours of one period)
\* + stateOfChargeMin[periodsOrder[k]] >= capacity*SOCmin.
C5_SimpleEnvelopes ==
    BuiltWithTSA =>
        \A lc \in SimplePairs :
            LET c == componentsDict[lc[2]]
            IN  /\ \A pt \in timeSet(esM) :
                       /\ \E r \in RowsAt("ConstSOCintraPeriodMax", lc \o pt) :
                              IsRelation(r.con, "<=",
                                  { <<ROne, Var("stateOfCharge", lc \o pt)>>,
                                    <<RNeg(ROne), Var("stateOfChargeMax", lc \o <<pt[1]>>)>> },
                                  RZero)
                       /\ \E r \in RowsAt("ConstSOCintraPeriodMin", lc \o pt) :
                              IsRelation(r.con, ">=",
                                  { <<ROne, Var("stateOfCharge", lc \o pt)>>,
                                    <<RNeg(ROne), Var("stateOfChargeMin", lc \o <<pt[1]>>)>> },
                                  RZero)
                /\ \A k \in esM.periods :
                       /\ OneEnvelopeBound("ConstrSOCMaxSimple", "<=", "stateOfChargeMax",
                                           ROne, c.stateOfChargeMax, lc, k)
                       /\ OneEnvelopeBound("ConstrSOCMinSimple", ">=", "stateOfChargeMin",
                                           RPow(RSub(ROne, c.selfDischarge),
                                                NumTimeSteps * esM.hoursPerTimeStep),
                                           c.stateOfChargeMin, lc, k)

----------------------------------------------------------------------------
(* C6 *)

\* Some row of the named constraint at (lc, p, t) relates SOC[p,t] in the
\* given sense to share * capacity
BoundsSOC(name, sense, share, lc, pt) ==
    \E r \in RowsAt(name, lc \o pt) :
        /\ r.con.sense = sense
        /\ REq(Net(r.con, Var("stateOfCharge", lc \o pt)), ROne)
        /\ componentsDict[lc[2]].hasCapacityVariable =>
               /\ REq(Net(r.con, Var("cap", lc)), RNeg(share))
               /\ REq(ConstNet(r.con), RZero)

\* C6 (as stated): once the constraints of a model without aggregation are
\* declared, every pair of the operation variable set, with or without a
\* capacity variable, has for every time step a row bounding SOC[0,t] from
\* below (ConstrSOCMin) and a row bounding it from above (ConstrSOCMaxPrecise).
C6_DirectBoundsEveryPair ==
    (pc = "constraints" /\ ~esM.hasTSA) =>
        \A lc \in pySets.operationVarSet : \A pt \in timeSet(esM) :
            /\ BoundsSOC("ConstrSOCMin", ">=", componentsDict[lc[2]].stateOfChargeMin, lc, pt)
            /\ BoundsSOC("ConstrSOCMaxPrecise", "<=",
                         componentsDict[lc[2]].stateOfChargeMax, lc, pt)

----------------------------------------------------------------------------
(* C7 *)

\* The row the cyclic-lifetime constraint has for pair lc: the charge
\* throughput weighted by periodOccurrences[p]/numberOfYears is at most
\* capacity*(stateOfChargeMax-stateOfChargeMin)*cyclicLifetime/economicLifetime[loc]
IsCyclicLifetimeRow(r, lc) ==
    LET c == componentsDict[lc[2]]
    IN  IsRelation(r.con, "<=",
            { <<R(esM.periodOccurrences[pt[1]], esM.numberOfYears),
                Var("chargeOp", lc \o pt)>> :
                  pt \in {x \in timeSet(esM) : esM.periodOccurrences[x[1]] # 0} }
            \cup
            { <<RNeg(RDiv(RMul(RSub(c.stateOfChargeMax, c.stateOfChargeMin),
                               RInt(Val(c.cyclicLifetime))),
                          RInt(c.economicLifetime[lc[1]]))),
                Var("cap", lc)>> },
            RZero)

\* C7 (as stated): once cyclicLifetime has run, every eligible pair whose
\* cyclicLifetime is set has the cyclic-lifetime row and every pair whose
\* cyclicLifetime is None has none: emission depends on cyclicLifetime only.
C7_EmissionDependsOnCyclicLifetimeOnly ==
    Declared("ConstrCyclicLifetime") =>
        \A lc \in Eligible :
            IF ~IsNone(componentsDict[lc[2]].cyclicLifetime)
            THEN \E r \in RowsAt("ConstrCyclicLifetime", lc) : IsCyclicLifetimeRow(r, lc)
            ELSE RowsAt("ConstrCyclicLifetime", lc) = {}

\* C7 (amended): once cyclicLifetime has run, every eligible pair that has a
\* capacity variable and whose cyclicLifetime is set has exactly one row of
\* ConstrCyclicLifetime, the throughput bound over declared variables; a pair
\* whose cyclicLifetime is None or that has no capacity variable has no row.
C7_CyclicLifetime ==
    Declared("ConstrCyclicLifetime") =>
        /\ \A r \in RowsOf("ConstrCyclicLifetime") : r.idx \in Eligible
        /\ \A lc \in Eligible :
               LET c == componentsDict[lc[2]]
                   rows == RowsAt("ConstrCyclicLifetime", lc)
               IN  IF ~IsNone(c.cyclicLifetime) /\ c.hasCapacityVariable
                   THEN /\ Cardinality(rows) = 1
                        /\ \A r \in rows : IsCyclicLifetimeRow(r, lc)
                        /\ \A r \in rows : \A v \in VarsOf(r.con) : VarExists(v)
                   ELSE rows = {}

\* C7 witness: the constraint is declared for a model with aggregation that
\* holds a limited pair with capacity variable (a row) and a limited pair
\* without capacity variable (no row)
C7_Witness ==
    /\ pc = "constraints"
    /\ esM.hasTSA
    /\ RowsOf("ConstrCyclicLifetime") # {}
    /\ \E lc \in Eligible : /\ ~IsNone(componentsDict[lc[2]].cyclicLifetime)
                            /\ ~componentsDict[lc[2]].hasCapacityVariable
                            /\ RowsAt("ConstrCyclicLifetime", lc) = {}

----------------------------------------------------------------------------
(* C8 *)

\* The object was constructed
Constructed == spc \notin {"unused", "new", "raised"}

\* A series the caller supplied holds a value v with 0 < v < partLoadMin
SuppliedBelowPartLoadMin(series) ==
    /\ ~IsNone(call.partLoadMin)
    /\ ~IsNone(series)
    /\ belowPartLoadMin(Val(series), Val(call.partLoadMin))

\* C8 (as stated): no Storage is ever constructed from a call that sets
\* partLoadMin and supplies a charge or discharge, fixed or maximum operation
\* rate series with a value strictly between 0 and partLoadMin: the
\* construction fails.
C8_PartLoadMinRejectsEverySeries ==
    Constructed =>
        /\ ~SuppliedBelowPartLoadMin(call.chargeOpRateFix)
        /\ ~SuppliedBelowPartLoadMin(call.chargeOpRateMax)
        /\ ~SuppliedBelowPartLoadMin(call.dischargeOpRateFix)
        /\ ~SuppliedBelowPartLoadMin(call.dischargeOpRateMax)

----------------------------------------------------------------------------
(* C9 *)

\* C9 (as stated): right after the construction from a call that supplies
\* both the fixed and the maximum series of a direction, the value the
\* component stores for ...OpRateMax, its full and its processed variant are
\* None, and the fixed series is kept.
C9_MaxDiscardedOnComponent ==
    spc = "constructed" =>
        /\ (~IsNone(call.chargeOpRateFix) /\ ~IsNone(call.chargeOpRateMax)) =>
               /\ IsNone(stor.chargeOpRateMax)
               /\ IsNone(stor.fullChargeOpRateMax)
               /\ IsNone(stor.processedChargeOpRateMax)
               /\ stor.chargeOpRateFix = call.chargeOpRateFix
               /\ stor.fullChargeOpRateFix = call.chargeOpRateFix
        /\ (~IsNone(call.dischargeOpRateFix) /\ ~IsNone(call.dischargeOpRateMax)) =>
               /\ IsNone(stor.dischargeOpRateMax)
               /\ IsNone(stor.fullDischargeOpRateMax)
               /\ IsNone(stor.processedDischargeOpRateMax)
               /\ stor.dischargeOpRateFix = call.dischargeOpRateFix
               /\ stor.fullDischargeOpRateFix = call.dischargeOpRateFix

----------------------------------------------------------------------------
(* C10 *)

AtMostOne(fix, max) == IsNone(fix) \/ IsNone(max)

\* C10: after construction and after any sequence of
\* setAggregatedTimeSeriesData and setTimeSeriesData calls, for the charge and
\* for the discharge direction at most one of the fixed and the maximum series
\* is not None, for the full, the aggregated and the processed variant alike;
\* and right after setTimeSeriesData(hasTSA) every processed series is the
\* aggregated one if hasTSA and the full one otherwise.
C10_FixMaxMutuallyExclusive ==
    Constructed =>
        /\ AtMostOne(stor.fullChargeOpRateFix, stor.fullChargeOpRateMax)
        /\ AtMostOne(stor.fullDischargeOpRateFix, stor.fullDischargeOpRateMax)
        /\ AtMostOne(stor.aggregatedChargeOpRateFix, stor.aggregatedChargeOpRateMax)
        /\ AtMostOne(stor.aggregatedDischargeOpRateFix, stor.aggregatedDischargeOpRateMax)
        /\ AtMostOne(stor.processedChargeOpRateFix, stor.processedChargeOpRateMax)
        /\ AtMostOne(stor.processedDischargeOpRateFix, stor.processedDischargeOpRateMax)
        /\ spc = "processedTSA" =>
               /\ stor.processedChargeOpRateFix = stor.aggregatedChargeOpRateFix
               /\ stor.processedChargeOpRateMax = stor.aggregatedChargeOpRateMax
               /\ stor.processedDischargeOpRateFix = stor.aggregatedDischargeOpRateFix
               /\ stor.processedDischargeOpRateMax = stor.aggregatedDischargeOpRateMax
        /\ spc = "processedFull" =>
               /\ stor.processedChargeOpRateFix = stor.fullChargeOpRateFix
               /\ stor.processedChargeOpRateMax = stor.fullChargeOpRateMax
               /\ stor.processedDischargeOpRateFix = stor.fullDischargeOpRateFix
               /\ stor.processedDischargeOpRateMax = stor.fullDischargeOpRateMax

\* C10 witness: a component called with both charge series and both discharge
\* series, aggregated and then processed with hasTSA, holds the aggregated
\* fixed series of both directions as its processed ones
C10_Witness ==
    /\ spc = "processedTSA"
    /\ ~IsNone(call.chargeOpRateFix) /\ ~IsNone(call.chargeOpRateMax)
    /\ ~IsNone(call.dischargeOpRateFix) /\ ~IsNone(call.dischargeOpRateMax)
    /\ ~IsNone(stor.processedChargeOpRateFix)
    /\ ~IsNone(stor.processedDischargeOpRateFix)

----------------------------------------------------------------------------
(* C11 *)

\* declareSets has run; declareComponentConstraints has run (and returned or
\* raised)
SetsDeclared == pc \in {"sets", "vars", "constraints", "raised", "objective"}
ConstraintsBuilt == pc \in {"constraints", "raised", "objective"}

\* The rows of a constraint that belong to the pair lc
RowsOfPair(name, lc) == {r \in RowsOf(name) : <<r.idx[1], r.idx[2]>> = lc}

SimpleConstraintNames ==
    {"ConstSOCintraPeriodMax", "ConstSOCintraPeriodMin", "ConstrSOCMaxSimple",
     "ConstrSOCMinSimple"}
PreciseConstraintNames == {"ConstrSOCMaxPrecise", "ConstrSOCMinPrecise"}

\* C11: with aggregation, varSetSimple and varSetPrecise are disjoint, their
\* union is the operation set, and a pair is in varSetPrecise iff its
\* component has doPreciseTsaModeling; once the constraints are declared, a
\* pair of a simple component has no row of the precise SOC-limit constraints
\* and a pair of a precise component no row of the simplified ones, and when
\* the declaration returned every pair with a capacity variable has rows of
\* each constraint of its own formulation.
C11_SimplePrecisePartition ==
    (esM.hasTSA /\ SetsDeclared) =>
        /\ pySets.varSetSimple \cap pySets.varSetPrecise = {}
        /\ pySets.varSetSimple \cup pySets.varSetPrecise = pySets.operationVarSet
        /\ pySets.operationVarSet = Eligible
        /\ \A lc \in pySets.operationVarSet :
               lc \in pySets.varSetPrecise <=> componentsDict[lc[2]].doPreciseTsaModeling
        /\ ConstraintsBuilt =>
               \A lc \in pySets.operationVarSet :
                   LET own == IF lc \in pySets.varSetPrecise THEN PreciseConstraintNames
                              ELSE SimpleConstraintNames
                       other == IF lc \in pySets.varSetPrecise THEN SimpleConstraintNames
                                ELSE PreciseConstraintNames
                   IN  /\ \A name \in other : RowsOfPair(name, lc) = {}
                       /\ (~pyConstr.raised /\ componentsDict[lc[2]].hasCapacityVariable) =>
                              \A name \in own : RowsOfPair(name, lc) # {}

\* C11 witness: the constraints are declared for a model with aggregation that
\* holds a simple and a precise component, each with rows of its formulation
C11_Witness ==
    /\ pc = "constraints"
    /\ esM.hasTSA
    /\ \E lc \in pySets.varSetSimple : RowsOfPair("ConstrSOCMaxSimple", lc) # {}
    /\ \E lc \in pySets.varSetPrecise : RowsOfPair("ConstrSOCMaxPrecise", lc) # {}

----------------------------------------------------------------------------
(* C12 *)

VariablesDeclared == pc \in {"vars", "constraints", "raised", "objective"}

\* The boundary indices a slack family is declared over
SlackBoundaries == IF esM.hasTSA THEN esM.interPeriodTimeSteps ELSE esM.periods

\* The slack variables of a family that the rows of pair lc in the cyclic and
\* the inter-period constraint mention
SlacksInEqualities(family, lc) ==
    {v \in UNION {VarsOf(r.con) : r \in RowsOfPair("ConstrCyclicState", lc)
                                       \cup RowsOfPair("ConstrInterSOC", lc)} :
        v[1] = family}

\* C12: once the variables are declared, with or without aggregation, the
\* slack offsetUp[loc, comp, i] (offsetDown[loc, comp, i]) exists iff (loc, comp)
\* is an eligible pair and the component's socOffsetUp (socOffsetDown) is >= 0;
\* every slack is a non-negative variable; and the cyclic and inter-period
\* equalities of a component with a negative coefficient carry no slack of
\* that direction.
C12_SlackExistence ==
    VariablesDeclared =>
        /\ pyVars["stateOfChargeOffsetUp"].index =
               {lc \o <<i>> : lc \in {x \in Eligible : componentsDict[x[2]].socOffsetUp >= 0},
                              i \in SlackBoundaries}
        /\ pyVars["stateOfChargeOffsetDown"].index =
               {lc \o <<i>> : lc \in {x \in Eligible : componentsDict[x[2]].socOffsetDown >= 0},
                              i \in SlackBoundaries}
        /\ pyVars["stateOfChargeOffsetUp"].domain = "NonNegativeReals"
        /\ pyVars["stateOfChargeOffsetDown"].domain = "NonNegativeReals"
        /\ ConstraintsBuilt =>
               \A lc \in Eligible :
                   /\ componentsDict[lc[2]].socOffsetUp < 0 =>
                          SlacksInEqualities("stateOfChargeOffsetUp", lc) = {}
                   /\ componentsDict[lc[2]].socOffsetDown < 0 =>
                          SlacksInEqualities("stateOfChargeOffsetDown", lc) = {}

\* C12 witness: the constraints are declared for a model holding a pair with
\* the default coefficients (no slack) and a pair with socOffsetUp = 0 (a slack)
C12_Witness ==
    /\ pc = "constraints"
    /\ \E lc \in Eligible : /\ componentsDict[lc[2]].socOffsetUp = -1
                            /\ componentsDict[lc[2]].socOffsetDown = -1
                            /\ RowsOfPair("ConstrCyclicState", lc) # {}
    /\ \E lc \in Eligible : /\ componentsDict[lc[2]].socOffsetUp = 0
                            /\ \E v \in pyVars["stateOfChargeOffsetUp"].index :
                                   <<v[1], v[2]>> = lc

----------------------------------------------------------------------------
(* C13 *)

SlackFamilies == {"stateOfChargeOffsetUp", "stateOfChargeOffsetDown"}

\* The coefficient the component of a slack variable sets on that direction
OwnCoefficient(v) ==
    IF v[1] = "stateOfChargeOffsetUp" THEN componentsDict[v[2][2]].socOffsetUp
    ELSE componentsDict[v[2][2]].socOffsetDown

\* The net coefficient of variable v in the objective contribution
ObjectiveCoef(v) == CoefIn(Val(pyObj).terms, v)

\* C13: the objective contribution carries every existing slack
\* offsetUp[loc,comp,i] with coefficient socOffsetUp(comp) and every existing
\* offsetDown[loc,comp,i] with socOffsetDown(comp), it carries no slack of a
\* component whose coefficient is negative, and every slack that a cyclic or
\* inter-period row mentions is priced with its own component's coefficient.
C13_ObjectivePenalty ==
    pc = "objective" =>
        /\ \A family \in SlackFamilies : \A idx \in pyVars[family].index :
               REq(ObjectiveCoef(Var(family, idx)), RInt(OwnCoefficient(Var(family, idx))))
        /\ \A n \in 1 .. Len(Val(pyObj).terms) :
               LET v == Val(pyObj).terms[n][2]
               IN  v[1] \in SlackFamilies => VarExists(v) /\ OwnCoefficient(v) >= 0
        /\ \A lc \in Eligible : \A family \in SlackFamilies :
               \A v \in SlacksInEqualities(family, lc) :
                   REq(ObjectiveCoef(v), RInt(OwnCoefficient(v)))

\* C13 witness: an objective with a priced upward and a priced downward slack
\* of different coefficients, both of which stand in a cyclic or inter-period
\* row, next to a component without slack
C13_Witness ==
    /\ pc = "objective"
    /\ \E lc \in Eligible :
           /\ \E v \in SlacksInEqualities("stateOfChargeOffsetUp", lc) :
                  REq(ObjectiveCoef(v), RInt(2))
           /\ \E v \in SlacksInEqualities("stateOfChargeOffsetDown", lc) :
                  REq(ObjectiveCoef(v), RInt(3))
    /\ \E lc \in Eligible : componentsDict[lc[2]].socOffsetDown < 0

----------------------------------------------------------------------------
(* C14 *)

\* C14: once equalInterSOC has run (aggregation), every eligible pair of a
\* component with isPeriodicalStorage has for every chronological period k
\* exactly one row SOCinter[k] = SOCinter[k+1], the rows together chaining all
\* inter-period indices; a pair of a component without the flag has no row.
C14_EqualInterSOC ==
    Declared("ConstrEqualInterSOC") =>
        /\ esM.hasTSA
        /\ \A r \in RowsOf("ConstrEqualInterSOC") :
               r.idx \in {lc \o <<k>> : lc \in Eligible, k \in esM.periods}
        /\ \A lc \in Eligible :
               IF componentsDict[lc[2]].isPeriodicalStorage
               THEN /\ \A k \in esM.periods :
                           LET rows == RowsAt("ConstrEqualInterSOC", lc \o <<k>>)
                           IN  /\ Cardinality(rows) = 1
                               /\ \A r \in rows :
                                      /\ IsRelation(r.con, "==",
                                             { <<ROne, Var("stateOfChargeInterPeriods",
                                                           lc \o <<k>>)>>,
                                               <<RNeg(ROne), Var("stateOfChargeInterPeriods",
                                                                 lc \o <<k + 1>>)>> },
                                             RZero)
                                      /\ \A v \in VarsOf(r.con) : VarExists(v)
                    /\ esM.interPeriodTimeSteps = esM.periods \cup {k + 1 : k \in esM.periods}
               ELSE RowsOfPair("ConstrEqualInterSOC", lc) = {}

\* C14 witness: the constraint is declared for a model that holds a periodic
\* and a non-periodic component
C14_Witness ==
    /\ pc = "constraints"
    /\ RowsOf("ConstrEqualInterSOC") # {}
    /\ \E lc \in Eligible : ~componentsDict[lc[2]].isPeriodicalStorage
    /\ \E lc \in Eligible : componentsDict[lc[2]].isPeriodicalStorage

----------------------------------------------------------------------------
(* C15 *)

\* C15: once intraSOCstart has run, every eligible pair and every typical
\* period p has exactly one row of ConstrSOCPeriodStart, SOCintra[p, 0] = 0,
\* and there is no other row; the constraint is declared with aggregation
\* only.
C15_IntraSOCStart ==
    /\ Declared("ConstrSOCPeriodStart") =>
           /\ esM.hasTSA
           /\ \A r \in RowsOf("ConstrSOCPeriodStart") :
                  r.idx \in {lc \o <<p>> : lc \in Eligible, p \in esM.typicalPeriods}
           /\ \A lc \in Eligible : \A p \in esM.typicalPeriods :
                  LET rows == RowsAt("ConstrSOCPeriodStart", lc \o <<p>>)
                  IN  /\ Cardinality(rows) = 1
                      /\ \A r \in rows :
                             /\ IsRelation(r.con, "==",
                                    {<<ROne, Var("stateOfCharge", lc \o <<p, 0>>)>>}, RZero)
                             /\ \A v \in VarsOf(r.con) : VarExists(v)
    /\ (ConstraintsBuilt /\ esM.hasTSA) => Declared("ConstrSOCPeriodStart")
    /\ (ConstraintsBuilt /\ ~esM.hasTSA) => ~Declared("ConstrSOCPeriodStart")

\* C15 witness: start rows declared for two typical periods
C15_Witness ==
    /\ pc = "constraints"
    /\ \E lc \in Eligible : \E p1, p2 \in esM.typicalPeriods :
           /\ p1 # p2
           /\ RowsAt("ConstrSOCPeriodStart", lc \o <<p1>>) # {}
           /\ RowsAt("ConstrSOCPeriodStart", lc \o <<p2>>) # {}

----------------------------------------------------------------------------
(* C16 *)

\* The components that are eligible at loc and store commod
BalanceComponents(commod, loc) ==
    {c \in DOMAIN componentsDict :
        /\ componentsDict[c].locationalEligibility[loc] = 1
        /\ componentsDict[c].commodity = commod}

\* The last query was q and returned the value the claim names
ReturnedAsClaimed ==
    ~IsNone(ret) =>
        LET q == Val(ret)
            comps == BalanceComponents(q.commod, q.loc)
        IN  IF q.op = "getCommodityBalanceContribution"
            THEN /\ IsRelation([lhs |-> q.value, sense |-> "==", rhs |-> Expr(<<>>, RZero)],
                        "==",
                        {<<ROne, Var("dischargeOp", <<q.loc, c>> \o q.pt)>> : c \in comps}
                        \cup {<<RNeg(ROne), Var("chargeOp", <<q.loc, c>> \o q.pt)>> : c \in comps},
                        RZero)
                 /\ \A n \in 1 .. Len(q.value.terms) : VarExists(q.value.terms[n][2])
            ELSE q.value = (comps # {})

\* C16: getCommodityBalanceContribution(commod, loc, p, t) returns the sum of
\* dischargeOp[loc,comp,p,t] - chargeOp[loc,comp,p,t] over exactly the
\* components eligible at loc whose commodity is commod (0 if there is none),
\* hasOpVariablesForLocationCommodity(loc, commod) is true iff there is such a
\* component, and a query changes no set, variable, constraint or component.
C16_BalanceContribution ==
    /\ []ReturnedAsClaimed
    /\ [][ret' # ret => UNCHANGED <<esM, componentsDict, registered, pySets, pyVars,
                                    pyConstr, pyObj, pc>>]_vars

\* C16 witness: at a location where two components of different commodities
\* are eligible the contribution of one commodity names one component only
C16_Witness ==
    /\ ~IsNone(ret)
    /\ Val(ret).op = "getCommodityBalanceContribution"
    /\ Cardinality({c \in DOMAIN componentsDict :
                       componentsDict[c].locationalEligibility[Val(ret).loc] = 1}) = 2
    /\ Cardinality(BalanceComponents(Val(ret).commod, Val(ret).loc)) = 1
    /\ Len(Val(ret).value.terms) = 2

----------------------------------------------------------------------------
(* Claims on the results: setOptimalValues and getOptimalValues *)

\* getOptimalValues has answered
Answered == ~IsNone(ret) /\ Val(ret).op = "getOptimalValues"

\* The names the documentation of getOptimalValues lists, and the result field
\* and the flag each stands for
DocumentedNames ==
    {"capacityVariables", "isBuiltVariables", "chargeOperationVariablesOptimum",
     "dischargeOperationVariablesOptimum", "stateOfChargeOperationVariablesOptimum"}
FamilyField(name) ==
    IF name = "capacityVariables" THEN "capacityVariablesOptimum"
    ELSE IF name = "isBuiltVariables" THEN "isBuiltVariablesOptimum"
    ELSE name
FamilyTimeDependent(field) ==
    field \notin {"capacityVariablesOptimum", "isBuiltVariablesOptimum"}
IsSingleEntry(x) == DOMAIN x = {"values", "timeDependent", "dimension"}
IsEntryOf(x, field) ==
    /\ IsSingleEntry(x)
    /\ x.values = Val(opt)[field]
    /\ x.timeDependent = FamilyTimeDependent(field)

\* C17: asked for one of the five documented names getOptimalValues returns the
\* single entry of that family, asked for anything else the structure keyed by
\* all five families; the entries of capacity and build decision carry
\* timeDependent = False, those of charge, discharge and SOC timeDependent = True
C17_DocumentedNamesSingleEntry ==
    Answered =>
        IF Val(ret).name \in DocumentedNames
        THEN IsEntryOf(Val(ret).value, FamilyField(Val(ret).name))
        ELSE /\ DOMAIN Val(ret).value = {FamilyField(n) : n \in DocumentedNames}
             /\ \A f \in DOMAIN Val(ret).value : IsEntryOf(Val(ret).value[f], f)

\* Values of a variable family are absent from the solution
Absent(family) == IsNone(Val(sol)[family])
NoSolution == Absent("chargeOp") \/ Absent("dischargeOp") \/ Absent("stateOfCharge")

\* C18: when values of charge, discharge or SOC are absent, setOptimalValues
\* completes without raising and leaves the result field of every absent family
\* None, with and without aggregation
C18_NoSolutionCompletes ==
    (~IsNone(opt) /\ NoSolution) =>
        /\ Val(opt).raised = "none"
        /\ Absent("chargeOp") => IsNone(Val(opt).chargeOperationVariablesOptimum)
        /\ Absent("dischargeOp") => IsNone(Val(opt).dischargeOperationVariablesOptimum)
        /\ Absent("stateOfCharge") => IsNone(Val(opt).stateOfChargeOperationVariablesOptimum)

\* The SOC series were extracted
SOCExtracted ==
    /\ ~IsNone(opt)
    /\ Val(opt).raised = "none"
    /\ ~IsNone(Val(opt).stateOfChargeOperationVariablesOptimum)

\* The segment of typical period p that stands for the original time step t
SegmentOf(p, t) ==
    CHOOSE sg \in segmentsPerPeriod :
        segmentStartTime(p, sg) <= t /\ t < segmentStartTime(p, sg + 1)

\* The intra-period index the value of time step t is read at
IntraIndex(p, t) == IF esM.segmentation THEN SegmentOf(p, t) ELSE t

\* C19: with aggregation the reported SOC series of a pair has (number of
\* chronological periods) * T values, the value of period k and time step t
\* being SOCinter[k] + SOCintra[periodsOrder[k], t], read at the segment standing
\* for t under segmentation; without aggregation it is SOC[0, 0 .. T-1]
C19_SOCExtraction ==
    SOCExtracted =>
        LET series == Val(Val(opt).stateOfChargeOperationVariablesOptimum)
            intra == Val(Val(sol).stateOfCharge)
        IN  /\ DOMAIN series = {<<pair[2], pair[1]>> : pair \in pySets.operationVarSet}
            /\ \A row \in DOMAIN series :
                   IF esM.hasTSA
                   THEN LET inter == Val(Val(sol).stateOfChargeInterPeriods)
                        IN  /\ Len(series[row]) = Cardinality(esM.periods) * NumTimeSteps
                            /\ \A k \in esM.periods : \A t \in timeStepsPerPeriod :
                                   series[row][k * NumTimeSteps + t + 1]
                                       = inter[<<row[2], row[1], k>>]
                                         + intra[<<row[2], row[1], esM.periodsOrder[k],
                                                   IntraIndex(esM.periodsOrder[k], t)>>]
                   ELSE /\ Len(series[row]) = NumTimeSteps
                        /\ \A t \in timeStepsPerPeriod :
                               series[row][t + 1] = intra[<<row[2], row[1], 0, t>>]

\* C19 witness: series extracted under segmentation, where a segment stands for
\* several time steps and two chronological periods share one typical period
C19_Witness ==
    /\ SOCExtracted
    /\ esM.hasTSA
    /\ esM.segmentation
    /\ esM.periodsOrder[0] = esM.periodsOrder[1]
    /\ \E sg \in segmentsPerPeriod : timeStepsPerSegment(esM.periodsOrder[0], sg) > 1
    /\ Cardinality(pySets.operationVarSet) >= 2

----------------------------------------------------------------------------
(* Claims on the order of registration *)

\* The sets of declareSets without the order their elements are held in
Unordered(sets) ==
    [n \in DOMAIN sets \ {"operationVarOrder"} |->
        IF n = "operationVarDict"
        THEN [loc \in DOMAIN sets[n] |-> Range(sets[n][loc])]
        ELSE sets[n]]

\* The terms of an expression as a set, and the variables with their net
\* coefficients
TermSet(e) == Range(e.terms)
NetCoefficients(e) == [v \in {t[2] : t \in Range(e.terms)} |-> CoefIn(e.terms, v)]

\* What the four methods declare when the components were registered in order o
SetsFor(o) == declareSets(esM, componentsDict, o)
VariablesFor(o) == declareVariables(esM, SetsFor(o))
ConstraintsFor(o) == declareComponentConstraints(esM, componentsDict, SetsFor(o), VariablesFor(o))
ObjectiveFor(o) ==
    getObjectiveFunctionContribution(esM, componentsDict, SetsFor(o), VariablesFor(o))

\* C20: the sets, the variables, the constraint rows and the objective terms
\* that declareSets, declareVariables, declareComponentConstraints and
\* getObjectiveFunctionContribution declare are the same for every order in
\* which the same components were registered; only the order of the pairs and
\* of the terms depends on it
C20_RegistrationOrder ==
    \A o \in RegistrationOrders(componentsDict) :
        /\ SetsDeclared => Unordered(pySets) = Unordered(SetsFor(o))
        /\ VariablesDeclared => pyVars = VariablesFor(o)
        /\ ConstraintsBuilt => pyConstr = ConstraintsFor(o)
        /\ pc = "objective" =>
               /\ TermSet(Val(pyObj)) = TermSet(ObjectiveFor(o))
               /\ NetCoefficients(Val(pyObj)) = NetCoefficients(ObjectiveFor(o))
               /\ Val(pyObj).const = ObjectiveFor(o).const

\* C20 witness: a model with slack terms in its objective whose pairs and terms
\* stand in another order than under the other registration order
C20_Witness ==
    /\ pc = "objective"
    /\ pySets.varSetOffsetUp # {}
    /\ \E o \in RegistrationOrders(componentsDict) :
           /\ o # registered
           /\ SetsFor(o).operationVarOrder # pySets.operationVarOrder
           /\ ObjectiveFor(o).terms # Val(pyObj).terms
           /\ TermSet(ObjectiveFor(o)) = TermSet(Val(pyObj))

----------------------------------------------------------------------------
(* Claims on an operated storage *)

\* The horizon has been run, and the values on the variables
Operated == pc = "operated"
Values == Val(sol)
StateOfCharge(t) == Values[SOCVar(t)]

\* The storage was run from an empty state with 5 units charged in the first
\* time step and d units discharged in the third, and nothing else
ScenarioRun(d) ==
    /\ Operated
    /\ REq(StateOfCharge(0), RZero)
    /\ \A t \in timeStepsPerPeriod :
           /\ REq(Values[ChargeVar(t)], IF t = 0 THEN RInt(5) ELSE RZero)
           /\ REq(Values[DischargeVar(t)], IF t = 2 THEN d ELSE RZero)

\* The SOC sequence [0, 4.5, 4.5, 0, 0]
ScenarioSOC ==
    \A t \in 0 .. NumTimeSteps :
        REq(StateOfCharge(t), IF t \in {1, 2} THEN R(9, 2) ELSE RZero)

\* What the charge flows put into the store and the discharge flows take out of
\* it, after losses, up to time step n
RECURSIVE StoredInflow(_)
StoredInflow(n) ==
    IF n = 0 THEN RZero
    ELSE RNorm(RAdd(StoredInflow(n - 1),
                    RMul(Values[ChargeVar(n - 1)], componentsDict["A"].chargeEfficiency)))
RECURSIVE DrawnOutflow(_)
DrawnOutflow(n) ==
    IF n = 0 THEN RZero
    ELSE RNorm(RAdd(DrawnOutflow(n - 1),
                    RDiv(Values[DischargeVar(n - 1)], componentsDict["A"].dischargeEfficiency)))

\* The row of ConstrCyclicState holds, and the boundary is strict
CyclicSatisfied == \A r \in RowsOf("ConstrCyclicState") : Satisfied(r.con, Values)
StrictBoundary == Operated /\ SlackVars = {}

\* With a strict boundary the cyclic row holds only if what went into the store
\* equals what was drawn from it
CyclicOnlyIfBalanced ==
    (StrictBoundary /\ CyclicSatisfied) =>
        REq(StoredInflow(NumTimeSteps), DrawnOutflow(NumTimeSteps))

\* C21 as stated: charging 5 units and then discharging 4.5 units yields under
\* the declared constraints the SOC sequence [0, 4.5, 4.5, 0, 0], and the cyclic
\* constraint is satisfied only if inflow equals outflow after losses
C21_ScenarioAsStated ==
    /\ ScenarioRun(R(9, 2)) => ScenarioSOC
    /\ CyclicOnlyIfBalanced

\* C21 amended: charging 5 units and then discharging 4.05 units, which draws
\* 4.05 / 0.9 = 4.5 units from the store, yields the SOC sequence
\* [0, 4.5, 4.5, 0, 0], which every declared row admits; the cyclic constraint
\* is satisfied only if inflow equals outflow after losses
C21_Scenario ==
    /\ ScenarioRun(R(81, 20)) =>
           /\ ScenarioSOC
           /\ SlackVars = {} => Feasible(pyConstr.rows, pyVars, Values)
    /\ CyclicOnlyIfBalanced

\* C21 witness: the scenario was run with a strict boundary and closes its cycle
C21_Witness ==
    /\ ScenarioRun(R(81, 20))
    /\ StrictBoundary
    /\ CyclicSatisfied
    /\ REq(StoredInflow(NumTimeSteps), R(9, 2))

----------------------------------------------------------------------------
(* Claims on the grouping utilities *)

\* A distance or a distance matrix was asked for, and it was returned
Asked(op) == ~IsNone(ret) /\ Val(ret).op = op
Got(op) == Asked(op) /\ Val(ret).result.raised = "none"

\* C22: the matrix selfDistanceMatrix returns is symmetric, has a zero
\* diagonal and no negative entry, and its entry (i, j) is selfDistance(i, j)
\* for every i < j
C22_DistanceMatrix ==
    Got("selfDistanceMatrix") =>
        LET X == Val(ret).result.value
            args == Val(ret).args
        IN  /\ DOMAIN X = Regions
            /\ \A i \in Regions :
                   /\ DOMAIN X[i] = Regions
                   /\ REq(X[i][i], RZero)
                   /\ \A j \in Regions :
                          /\ REq(X[i][j], X[j][i])
                          /\ RLe(RZero, X[i][j])
                          /\ i < j =>
                                 REq(X[i][j],
                                     selfDistance(args[1], args[2], args[3], NumRegions,
                                                  i, j, None).value)

\* C22 witness: a matrix of a dataset with all three classes, with regions at
\* a positive distance
C22_Witness ==
    /\ Got("selfDistanceMatrix")
    /\ \A n \in 1 .. 3 : DOMAIN Val(Val(ret).args[n]) # {}
    /\ \E i, j \in Regions : i < j /\ ~REq(Val(ret).result.value[j][i], RZero)

\* The position of the pair (a, b), a < b, in the condensed form of a square
\* matrix of n rows
CondensedPosition(n, a, b) == n * a - (a * (a + 1)) \div 2 + (b - a - 1)

\* The 2d variables of the dataset and the symmetric matrix each was built from
Vars2d == DOMAIN Val(sds).data_vars \cap {"distances_2d", "capacities_2d"}
MatrixOf(var) == IF var = "distances_2d" THEN PairMatrix ELSE FlatMatrix
Connectivities(var) == {MatrixOf(var)[i][j] : <<i, j>> \in {ij \in Regions \X Regions : ij[1] < ij[2]}}
Least(S) == CHOOSE x \in S : \A y \in S : RLe(x, y)
Greatest(S) == CHOOSE x \in S : \A y \in S : RLe(y, x)

\* 1 - the connectivity of i and j scaled to [0, 1]
Dissimilarity(var, i, j) ==
    LET lo == Least(Connectivities(var))
        hi == Greatest(Connectivities(var))
    IN  IF REq(hi, lo) THEN ROne
        ELSE RNorm(RSub(ROne, RDiv(RSub(MatrixOf(var)[i][j], lo), RSub(hi, lo))))

\* The sum of the matrices of all 2d variables
AdjacencySum ==
    [i \in Regions |-> [j \in Regions |->
        RSumOver(Vars2d, [var \in Vars2d |-> MatrixOf(var)[i][j]])]]

Preprocessed(mode) == ~IsNone(parts) /\ Val(parts).handle_mode = mode /\ Vars2d # {}

\* C23: preprocessDataset handles the 2d variables in the mode the caller
\* passed: 'toDissimilarity' gives for every 2d variable and valid component
\* the vector of 1 - scaled connectivity with values in [0, 1], 'extract' gives
\* one adjacency matrix, the sum of the matrices of all 2d variables
C23_HandleModeHonoured ==
    /\ Preprocessed("toDissimilarity") =>
           /\ Val(parts).raised = "none"
           /\ LET ds_2d == Val(Val(parts).value[3])
              IN  /\ DOMAIN ds_2d = Vars2d
                  /\ \A var \in Vars2d : \A c \in DOMAIN ds_2d[var] :
                         \A i, j \in Regions :
                             i < j =>
                                 LET x == ds_2d[var][c][CondensedPosition(NumRegions, i, j)]
                                 IN  /\ REq(x, Dissimilarity(var, i, j))
                                     /\ RLe(RZero, x) /\ RLe(x, ROne)
    /\ Preprocessed("extract") =>
           /\ Val(parts).raised = "none"
           /\ Val(parts).value[3] = Some(AdjacencySum)

\* C24: the index selfDistance reads the 2d distance vectors at is the
\* position of the pair (a, b) in the condensed vector, so that distinct pairs
\* read distinct entries
C24_CondensedIndex ==
    Asked("selfDistance") =>
        /\ index_regA_regB(NumRegions, Val(ret).a, Val(ret).b)
               = CondensedPosition(NumRegions, Val(ret).a, Val(ret).b)
        /\ \A c, d \in Regions :
               (c < d /\ <<c, d>> # <<Val(ret).a, Val(ret).b>>) =>
                   index_regA_regB(NumRegions, c, d)
                       # index_regA_regB(NumRegions, Val(ret).a, Val(ret).b)

\* The 2d part that adds every value with the weight of its variable
WeightedDistance2d(ds_2d, index, w) ==
    RSumOver(DOMAIN ds_2d,
             [var \in DOMAIN ds_2d |->
                 RMul(RSumOver(DOMAIN ds_2d[var],
                               [c \in DOMAIN ds_2d[var] |-> ds_2d[var][c][index]]),
                      weightFactor(w, var))])


\* The distance with every partial distance a weighted average
WeightedAverageDistance(args, a, b, w) ==
    RNorm(RAdd(RAdd(RDiv(distanceTs(Val(args[1]), a, b, w), lengthTs(Val(args[1]), w)),
                    RDiv(distance1d(Val(args[2]), a, b, w), length1d(Val(args[2]), a, w))),
               RDiv(WeightedDistance2d(Val(args[3]), CondensedPosition(NumRegions, a, b), w),
                    length2d(Val(args[3]), w))))

\* The weightings with every factor multiplied by k
Multiplied(w, k) == Some([v \in DOMAIN Val(w) |-> k * Val(w)[v]])

\* C25: each partial distance is the average weighted by the variables' weight
\* factors, in the numerator as in the denominator; with all weights 1 the
\* distance is the unweighted one, and a common positive factor on all weights
\* leaves it unchanged
C25_WeightedAverage ==
    (Got("selfDistance") /\ Val(ret).a < 2) =>
        LET r == Val(ret)
        IN  /\ REq(r.result.value, WeightedAverageDistance(r.args, r.a, r.b, r.var_weightings))
            /\ ~IsNone(r.var_weightings) =>
                   REq(r.result.value,
                       selfDistance(r.args[1], r.args[2], r.args[3], NumRegions, r.a, r.b,
                                    Multiplied(r.var_weightings, 2)).value)

\* A class of the dataset is empty: its part is None or an empty dictionary
EmptyClass(args) == \E n \in 1 .. 3 : IsNone(args[n]) \/ DOMAIN Val(args[n]) = {}

\* C30: with an empty class selfDistance and selfDistanceMatrix still return a
\* distance, made of the other classes, without an error
C30_EmptyClassTolerated ==
    (~IsNone(ret) /\ EmptyClass(Val(ret).args)) => Val(ret).result.raised = "none"

----------------------------------------------------------------------------
(* C26 *)

\* The eligible pairs of simplified components without capacity variable
SimplePairsWithoutCapacity ==
    {lc \in SimplePairs : ~componentsDict[lc[2]].hasCapacityVariable}

\* C26: no constraint rule returns nothing; SOCMaxSimple skips the pairs of a
\* simplified component without capacity variable, so that under aggregation
\* ConstrSOCMaxSimple is declared, without a row for these pairs, and the
\* declaration does not fail on it
C26_SOCMaxSimpleSkips ==
    (BuiltWithTSA /\ SimplePairsWithoutCapacity # {}) =>
        /\ "ConstrSOCMaxSimple" \in pyConstr.declared
        /\ \A lc \in SimplePairsWithoutCapacity : \A k \in esM.periods :
               RowsAt("ConstrSOCMaxSimple", lc \o <<k>>) = {}

----------------------------------------------------------------------------
(* C29 *)

\* The attribute of a Storage that holds the processed fix or max rate series
\* of the flow of an operation variable
ProcessedRateName(opVarName, series) ==
    IF opVarName = "chargeOp"
    THEN (IF series = "Fix" THEN "processedChargeOpRateFix" ELSE "processedChargeOpRateMax")
    ELSE (IF series = "Fix" THEN "processedDischargeOpRateFix" ELSE "processedDischargeOpRateMax")

\* The calls declaring the time-series modes 2 to 5
TimeSeriesModeCalls ==
    {operationModeCalls[n] : n \in {m \in DOMAIN operationModeCalls :
                                        operationModeCalls[m].mode \in 2 .. 5}}

\* C29: once the constraints have been declared, every rate attribute name
\* passed for the modes 2 to 5, for charging as for discharging, is an
\* attribute of every registered Storage, and is the processed fix series of
\* the flow for the modes 2 and 4 and its processed max series for 3 and 5
C29_OperationRateNames ==
    ConstraintsBuilt =>
        \A c \in DOMAIN componentsDict : \A made \in TimeSeriesModeCalls :
            /\ made.opRateName \in DOMAIN componentsDict[c]
            /\ made.opRateName
                   = ProcessedRateName(made.opVarName,
                                       IF made.mode \in {2, 4} THEN "Fix" ELSE "Max")

----------------------------------------------------------------------------
(* C27 *)

\* The values found are a feasible solution of the declared model
FeasibleSolution == Operated /\ Feasible(pyConstr.rows, pyVars, Values)

\* The state of charge at index t lies between the capacity's minimum and
\* maximum share
WithinCapacity(t) ==
    LET c == componentsDict[OperatedPair[2]]
    IN  /\ RLe(RMul(OperatedCapacity, c.stateOfChargeMin), StateOfCharge(t))
        /\ RLe(StateOfCharge(t), RMul(OperatedCapacity, c.stateOfChargeMax))

\* C27: without aggregation, in every feasible solution the state of charge at
\* every index 0..T, the end of the horizon included, lies between
\* capacity*stateOfChargeMin and capacity*stateOfChargeMax, with a strict as
\* with a relaxed cyclic boundary
C27_BoundedUpToHorizonEnd ==
    FeasibleSolution => \A t \in 0 .. NumTimeSteps : WithinCapacity(t)

----------------------------------------------------------------------------
(* C28 *)

\* R[k, t] of the pair (loc, compName) in the solution: the inter-period state
\* of charge of period k decayed over the hours elapsed up to t, plus the
\* intra-period state of charge of the typical period standing for k
ReconstructedSOC(loc, compName, k, t) ==
    LET inter == Val(Val(sol).stateOfChargeInterPeriods)
        intra == Val(Val(sol).stateOfCharge)
        p == esM.periodsOrder[k]
    IN  RAdd(RMul(RInt(inter[<<loc, compName, k>>]),
                  RPow(RSub(ROne, componentsDict[compName].selfDischarge), ElapsedHours(k, t))),
             RInt(intra[<<loc, compName, p, IntraIndex(p, t)>>]))

\* C28: under aggregation the state of charge reported for the chronological
\* period k and the time step t is R[k, t], the quantity the precise limits
\* bound, whatever the self-discharge of the component
C28_ReportedIsReconstructed ==
    (SOCExtracted /\ esM.hasTSA) =>
        LET series == Val(Val(opt).stateOfChargeOperationVariablesOptimum)
        IN  \A row \in DOMAIN series : \A k \in esM.periods : \A t \in timeStepsPerPeriod :
                REq(RInt(series[row][k * NumTimeSteps + t + 1]),
                    ReconstructedSOC(row[2], row[1], k, t))

=============================================================================
